---- MODULE Spec2Model ----
(***************************************************************************)
(* A model of the reasoning-framework runtime of AI-Thinking-Frameworks:   *)
(* the LLM client callLLM (retry, backoff, cancellation), the tool         *)
(* registry, the output parsers and the four engines runReAct, runReWOO,   *)
(* runPlanExecute and runCoT.                                              *)
(*                                                                         *)
(* Texts (LLM replies, tool inputs and outputs) are sequences of tokens;   *)
(* the token "\n" separates lines.  An await in the source is a point      *)
(* where another action may interleave; the code between two awaits is one *)
(* action.                                                                 *)
(***************************************************************************)
EXTENDS Integers, Sequences, FiniteSets, TLC

VARIABLES
    aborted,      \* signal.aborted of the shared AbortController
    call,         \* the callLLM invocations in flight, one record per slot
    callLog,      \* the callLLM invocations made by the run: their purposes
    pc,           \* position of the engine (or driver) in its code
    outcome,      \* how the run ended: "none", "result" (it returned), or the
                  \* error it threw: "AbortError", "Error" (from callLLM),
                  \* "ToolError" (the rejection of a tool's promise),
                  \* "TypeError" (thrown by smartMajorityVote)
    result,       \* the result object the run returned
    apiKey,       \* whether a credential was supplied
    turn,         \* runReAct: turn
    messages,     \* runReAct / executeStep: messages
    trajectory,   \* runReAct: trajectory
    usages,       \* usages: the usage records collected (one unit each)
    events,       \* the onStep / onProgress invocations, in order
    action,       \* the parsed action whose tool is executing
    toolRun,      \* the last executeTool call and how its promise settled
    planText,     \* runReWOO / runPlanExecute: planText
    steps,        \* runReWOO: steps
    evidence,     \* runReWOO: evidence, as [variable, value] in insertion order
    stepIdx,      \* runReWOO: the position of the worker loop in steps
    input,        \* runReWOO: input, the substituted tool input of the step
    plan,         \* runPlanExecute: plan, the steps still to run
    currentStep,  \* runPlanExecute: currentStep
    pastSteps,    \* runPlanExecute: pastSteps, as <<step, output>> pairs
    replanCount,  \* runPlanExecute: replanCount
    finalAnswer,  \* runPlanExecute: finalAnswer
    llmCalls,     \* runPlanExecute: llmCalls
    execUsages,   \* executeStep: usages, the usage records of the step
    execResponse, \* executeStep: response, the reply of the current turn
    question,     \* runCoT: question
    paths,        \* runCoT: the content of each sample that has completed
    questionType, \* runCoT: questionType
    classUsage,   \* runCoT: whether classification.usage is set
    answers,      \* runCoT: answers, the answer extracted from each path
    merged,       \* smartMajorityVote: merged, the groups before step 4
    frameworks,   \* FrameworkRunner: config.frameworks, the selected ids
    promises,     \* FrameworkRunner: how each launched engine's promise stands
    results,      \* FrameworkRunner: results, the object recorded per id
    cancelled,    \* FrameworkRunner: cancelled, set by the effect's cleanup
    running,      \* FrameworkRunner: running
    stopped       \* FrameworkRunner: stopped

runVars == <<callLog, pc, outcome, result>>
reactVars == <<turn, messages, trajectory, action>>
rewooVars == <<planText, steps, evidence, stepIdx, input>>
peVars == <<plan, currentStep, pastSteps, replanCount, finalAnswer, llmCalls,
           execUsages, execResponse>>
cotVars == <<question, paths, questionType, classUsage, answers, merged>>
runnerVars == <<frameworks, promises, results, cancelled, running, stopped>>
engineVars == <<apiKey, runnerVars, usages, events, toolRun, reactVars, rewooVars, peVars,
                cotVars>>
vars == <<aborted, call, runVars, engineVars>>

\* The number of callLLM invocations the run has made.
nCalls == Len(callLog)

(***************************************************************************)
(* Bounds of the model.                                                    *)
(***************************************************************************)
MaxInvocations == 2     \* callLLM invocations made by the stand-alone driver
maxTurns == 2           \* runReAct: the maxTurns option
nSamples == 2           \* runCoT: the nSamples option

(***************************************************************************)
(* callLLM  (src/src/frameworks/llm.js)                                    *)
(***************************************************************************)
RETRYABLE_STATUSES == {429, 500, 502, 503, 504}
MAX_RETRIES == 3

\* The statuses a non-ok response of the proxy may carry in the model.
FailureStatuses == {400, 429, 500, 501, 503}

\* What a settled fetch delivered: a network failure, or a response status.
NoError == [kind |-> "none", status |-> 0, attempt |-> 0]

IdleCall ==
    [pc |-> "idle", attempt |-> 0, reqs |-> 0, waits |-> 0, delays |-> <<>>,
     lastError |-> NoError, error |-> "none", sigAtEnd |-> FALSE]

\* A throw out of callLLM; sigAtEnd records signal.aborted at that moment.
Throw(c, e) == [c EXCEPT !.pc = "thrown", !.error = e, !.sigAtEnd = aborted]

BASE_DELAY_MS == 1000

RECURSIVE Pow2(_)
Pow2(n) == IF n = 0 THEN 1 ELSE 2 * Pow2(n - 1)

\* A delay that grows by BASE_DELAY_MS per attempt.
DelayLinear(att) == BASE_DELAY_MS * att

\* const delay = BASE_DELAY_MS * Math.pow(2, attempt - 1)
Delay(att) == BASE_DELAY_MS * Pow2(att - 1)

\* The top of the retry loop for attempt `att`, up to its first await:
\* the loop condition, the abort check, then the backoff wait or the fetch.
LoopTop(c, att) ==
    IF att > MAX_RETRIES THEN Throw(c, "LastError")
    ELSE IF aborted THEN Throw(c, "AbortError")
    ELSE IF att > 0
         THEN [c EXCEPT !.attempt = att, !.pc = "backoff", !.waits = @ + 1,
                        !.delays = Append(@, Delay(att))]
         ELSE [c EXCEPT !.attempt = att, !.pc = "fetch", !.reqs = @ + 1]

\* A call to callLLM runs synchronously to its first await.
Invoke == LoopTop(IdleCall, 0)

\* The backoff promise resolves (timer, or the abort listener); the abort
\* check after it, then the fetch.
AfterBackoff(c) ==
    IF aborted THEN Throw(c, "AbortError")
    ELSE [c EXCEPT !.pc = "fetch", !.reqs = @ + 1]

\* The first error of the invocation kept in place of the last one.
AfterFetchErrorKeepFirst(c) ==
    LET c1 == IF c.lastError.kind = "none"
              THEN [c EXCEPT !.lastError =
                      [kind |-> "net", status |-> 0, attempt |-> c.attempt + 1]]
              ELSE c
    IN IF c.attempt < MAX_RETRIES THEN LoopTop(c1, c.attempt + 1)
       ELSE Throw(c1, "LastError")

\* A transport failure that is thrown at once, without a retry.
AfterFetchErrorNoRetry(c) ==
    Throw([c EXCEPT !.lastError =
             [kind |-> "net", status |-> 0, attempt |-> c.attempt + 1]],
          "LastError")

\* fetch rejected with something other than AbortError.
AfterFetchError(c) ==
    LET c1 == [c EXCEPT !.lastError =
                 [kind |-> "net", status |-> 0, attempt |-> c.attempt + 1]]
    IN IF c.attempt < MAX_RETRIES THEN LoopTop(c1, c.attempt + 1)
       ELSE Throw(c1, "LastError")

\* fetch resolved with a response of the given status.
AfterResponse(c, status) ==
    IF status = 200 THEN [c EXCEPT !.pc = "bodyOk"]
    ELSE IF status \notin RETRYABLE_STATUSES
         THEN [c EXCEPT !.pc = "bodyErr",
                        !.lastError = [kind |-> "final", status |-> status,
                                       attempt |-> c.attempt + 1]]
         ELSE LoopTop([c EXCEPT !.lastError =
                         [kind |-> "status", status |-> status,
                          attempt |-> c.attempt + 1]],
                      c.attempt + 1)

\* response.json() of an ok response settled.
AfterOkBody(c, hasMessage) ==
    IF hasMessage THEN [c EXCEPT !.pc = "returned", !.sigAtEnd = aborted]
    ELSE Throw(c, "NoCompletion")

\* A non-retryable response handled like a retryable one.
AfterErrBodyRetried(c, hasMessage) == LoopTop(c, c.attempt + 1)

\* response.json().catch(() => ({})) of a non-retryable response settled.
AfterErrBody(c, hasMessage) ==
    IF hasMessage THEN Throw(c, "ProviderMessage") ELSE Throw(c, "ApiError")

Pending(c) == c.pc \in {"backoff", "fetch", "bodyOk", "bodyErr"}
Settled(c) == c.pc \in {"returned", "thrown"}

\* Slot 1 holds the call an engine awaits; runCoT samples in all the slots.
Slots == 1..nSamples

\* controller.abort(): sets signal.aborted; a second abort changes nothing.
\* A settled promise's continuation runs as a microtask, before any event.
Abort ==
    /\ ~aborted
    /\ \A s \in Slots : ~Settled(call[s])
    /\ aborted' = TRUE
    /\ UNCHANGED <<call, runVars, engineVars>>

BackoffDone(s) ==
    /\ call[s].pc = "backoff"
    /\ call' = [call EXCEPT ![s] = AfterBackoff(call[s])]
    /\ UNCHANGED <<aborted, runVars, engineVars>>

FetchSettle(s) ==
    /\ call[s].pc = "fetch"
    /\ IF aborted
       THEN call' = [call EXCEPT ![s] = Throw(call[s], "AbortError")]
       ELSE \/ call' = [call EXCEPT ![s] = AfterFetchError(call[s])]
            \/ \E st \in FailureStatuses \cup {200} :
                  call' = [call EXCEPT ![s] = AfterResponse(call[s], st)]
    /\ UNCHANGED <<aborted, runVars, engineVars>>

OkBodySettle(s) ==
    /\ call[s].pc = "bodyOk"
    /\ IF aborted
       THEN call' = [call EXCEPT ![s] = Throw(call[s], "AbortError")]
       ELSE \E hasMessage \in BOOLEAN :
              call' = [call EXCEPT ![s] = AfterOkBody(call[s], hasMessage)]
    /\ UNCHANGED <<aborted, runVars, engineVars>>

ErrBodySettle(s) ==
    /\ call[s].pc = "bodyErr"
    /\ IF aborted
       THEN call' = [call EXCEPT ![s] = AfterErrBody(call[s], FALSE)]
       ELSE \E hasMessage \in BOOLEAN :
              call' = [call EXCEPT ![s] = AfterErrBody(call[s], hasMessage)]
    /\ UNCHANGED <<aborted, runVars, engineVars>>

LLMStep ==
    \E s \in Slots :
        BackoffDone(s) \/ FetchSettle(s) \/ OkBodySettle(s) \/ ErrBodySettle(s)

(***************************************************************************)
(* Texts.  null is the one-token text NULL, which no reply or tool output  *)
(* contains; the empty string is <<>>.                                     *)
(***************************************************************************)
NULL == <<"<null>">>

\* JavaScript truthiness of a string-or-null value.
Truthy(v) == v # NULL /\ v # <<>>

\* \s
WS == {"\n", " "}

\* Tokens that are not a run of word characters (\w+).
NonWordTokens ==
    WS \cup {":", "Action:", "Answer:", "Thought:", "Observation:", "Plan:",
             "DONE:", "=", "[", "]", "+", "-", "*", "/", "(", ")", ".", "%",
             ";", "#E1", "#E2", "#E3", "1.", "2.", "<null>"}

IsWord(tok) == tok \notin NonWordTokens

RECURSIVE TrimLeft(_)
TrimLeft(t) ==
    IF t # <<>> /\ Head(t) \in WS THEN TrimLeft(Tail(t)) ELSE t

RECURSIVE TrimRight(_)
TrimRight(t) ==
    IF t # <<>> /\ t[Len(t)] \in WS
    THEN TrimRight(SubSeq(t, 1, Len(t) - 1)) ELSE t

\* String.prototype.trim
Trim(t) == TrimRight(TrimLeft(t))

\* The first index >= i holding tok, or 0.
RECURSIVE IndexFrom(_, _, _)
IndexFrom(t, tok, i) ==
    IF i > Len(t) THEN 0
    ELSE IF t[i] = tok THEN i ELSE IndexFrom(t, tok, i + 1)

\* The first index >= i that holds no whitespace (Len(t) + 1 if none): \s*
RECURSIVE SkipWs(_, _)
SkipWs(t, i) ==
    IF i <= Len(t) /\ t[i] \in WS THEN SkipWs(t, i + 1) ELSE i

\* The first index >= i holding "\n", or Len(t) + 1: the end of the line.
RECURSIVE LineEnd(_, _)
LineEnd(t, i) ==
    IF i > Len(t) \/ t[i] = "\n" THEN i ELSE LineEnd(t, i + 1)

\* String.prototype.startsWith, for a one-token prefix.
StartsWith(t, tok) == t # <<>> /\ t[1] = tok

(***************************************************************************)
(* Output parsers  (src/src/utils/parser.js)                               *)
(***************************************************************************)
\* /Answer:\s*([\s\S]*)/ : everything after the first "Answer:", trimmed.
parseReActAnswer(text) ==
    LET i == IndexFrom(text, "Answer:", 1)
    IN IF i = 0 THEN NULL ELSE Trim(SubSeq(text, i + 1, Len(text)))

NoAction == [found |-> FALSE, actionName |-> "", actionInput |-> <<>>]

\* /^Action:\s*(\w+):\s*([\s\S]*?)(?=\nPAUSE|\n*$)/m matches at index i: a
\* line starts there with "Action:", then a word and a colon.
ActionAt(t, i) ==
    /\ i = 1 \/ t[i - 1] = "\n"
    /\ t[i] = "Action:"
    /\ LET j == SkipWs(t, i + 1)
       IN j + 1 <= Len(t) /\ IsWord(t[j]) /\ t[j + 1] = ":"

\* With the m flag, $ matches at every line end, so the lazy input capture
\* stops at the end of the line on which the input starts.
parseReActAction(text) ==
    LET starts == {i \in 1..Len(text) : ActionAt(text, i)}
    IN IF starts = {} THEN NoAction
       ELSE LET i == CHOOSE x \in starts : \A y \in starts : x <= y
                j == SkipWs(text, i + 1)
                k == SkipWs(text, j + 2)
            IN [found |-> TRUE,
                actionName |-> text[j],
                actionInput |-> Trim(SubSeq(text, k, LineEnd(text, k) - 1))]

\* The tokens #E\d+ matches.
VarTokens == {"#E1", "#E2", "#E3", "#E10"}

NoTail == [ok |-> FALSE, variable |-> "", tool |-> "", toolInput |-> <<>>, end |-> 0]

\* (#E\d+)\s*=\s*(\w+)\s*\[([^\]]+)\] matched with the variable at index v.
AssignAt(t, v) ==
    IF ~(v <= Len(t) /\ t[v] \in VarTokens) THEN NoTail
    ELSE LET e == SkipWs(t, v + 1)
             w == SkipWs(t, e + 1)
             b == SkipWs(t, w + 1)
             c == IndexFrom(t, "]", b + 1)
         IN IF /\ e <= Len(t) /\ t[e] = "="
               /\ w <= Len(t) /\ IsWord(t[w])
               /\ b <= Len(t) /\ t[b] = "["
               /\ c > b + 1
            THEN [ok |-> TRUE, variable |-> t[v], tool |-> t[w],
                  toolInput |-> SubSeq(t, b + 1, c - 1), end |-> c]
            ELSE NoTail

\* The end of the shortest description starting at index s: the first e
\* on the same line after which, whitespace skipped, an assignment follows.
\* 0 if there is none.
RECURSIVE DescEnd(_, _)
DescEnd(t, e) ==
    IF e > Len(t) \/ t[e] = "\n" THEN 0
    ELSE IF AssignAt(t, SkipWs(t, e + 1)).ok THEN e
    ELSE DescEnd(t, e + 1)

\* Plan:\s*(.+?) from the "Plan:" at index i: \s* gives back whitespace
\* only when no description starts after all of it.  0 if none matches.
RECURSIVE DescStart(_, _, _)
DescStart(t, i, s) ==
    IF s <= i THEN 0
    ELSE IF DescEnd(t, s) # 0 THEN s
    ELSE DescStart(t, i, s - 1)

\* The strict regex matches at index i.
StrictOk(t, i) ==
    /\ t[i] = "Plan:"
    /\ DescStart(t, i, SkipWs(t, i + 1)) # 0

\* Its match there.
StrictAt(t, i) ==
    LET s == DescStart(t, i, SkipWs(t, i + 1))
        e == DescEnd(t, s)
        a == AssignAt(t, SkipWs(t, e + 1))
    IN [description |-> Trim(SubSeq(t, s, e)), variable |-> a.variable,
        tool |-> a.tool, toolInput |-> a.toolInput, end |-> a.end]

PlanStep(m) ==
    [description |-> m.description, variable |-> m.variable, tool |-> m.tool,
     toolInput |-> m.toolInput]

\* strictRegex.exec in a loop: the matches that start at index i or later,
\* left to right; the text up to index lastEnd is already matched.
RECURSIVE StrictMatches(_, _, _)
StrictMatches(t, i, lastEnd) ==
    IF i > Len(t) THEN <<>>
    ELSE IF i > lastEnd /\ StrictOk(t, i)
         THEN <<PlanStep(StrictAt(t, i))>>
              \o StrictMatches(t, i + 1, StrictAt(t, i).end)
         ELSE StrictMatches(t, i + 1, lastEnd)

\* The start of the line that holds index i.
RECURSIVE LineStart(_, _)
LineStart(t, i) ==
    IF i <= 1 \/ t[i - 1] = "\n" THEN i ELSE LineStart(t, i - 1)

\* The description the loose pass makes up from the text before the match:
\* the last line, without a leading "Plan:" marker, or 'Step'.
LooseDescription(t, v) ==
    LET lastLine == Trim(SubSeq(t, LineStart(t, v), v - 1))
        stripped == IF StartsWith(lastLine, "Plan:")
                    THEN Trim(Tail(lastLine)) ELSE lastLine
    IN IF stripped = <<>> THEN <<"Step">> ELSE stripped

\* looseRegex.exec in a loop.
RECURSIVE LooseMatches(_, _, _)
LooseMatches(t, v, lastEnd) ==
    IF v > Len(t) THEN <<>>
    ELSE IF v > lastEnd /\ AssignAt(t, v).ok
         THEN <<[description |-> LooseDescription(t, v),
                 variable |-> AssignAt(t, v).variable,
                 tool |-> AssignAt(t, v).tool,
                 toolInput |-> AssignAt(t, v).toolInput]>>
              \o LooseMatches(t, v + 1, AssignAt(t, v).end)
         ELSE LooseMatches(t, v + 1, lastEnd)

parseReWOOPlan(text) ==
    IF Len(StrictMatches(text, 1, 0)) > 0
    THEN StrictMatches(text, 1, 0) ELSE LooseMatches(text, 1, 0)

(***************************************************************************)
(* Tool registry  (src/src/frameworks/tools.js)                            *)
(***************************************************************************)
\* What the network and the expression evaluator do during one tool call.
NetOutcomes ==
    [wiki    : {"results", "none", "throw"},
     summary : {"long", "short", "throw"},
     search  : {"content", "labelled", "empty", "http", "throw"},
     eval    : {"value", "throw"}]

Resolved(t) == [settled |-> "resolved", text |-> t]
Rejected == [settled |-> "rejected", text |-> <<>>]

wikipedia(query, net) ==
    IF net.wiki = "throw" THEN Rejected
    ELSE IF net.wiki = "none" THEN Resolved(<<"No Wikipedia results found.">>)
    ELSE IF net.summary = "long"
         THEN Resolved(<<"Summary of", "extract", "Search snippets:", "snippets">>)
         ELSE Resolved(<<"snippets">>)

openaiWebSearch(query, key, net) ==
    IF ~key THEN wikipedia(query, net)
    ELSE IF net.search = "content" THEN Resolved(<<"content">>)
    ELSE IF net.search = "labelled"
         THEN Resolved(<<"Question:", "q", "\n", "Answer:", " ", "7">>)
    ELSE wikipedia(query, net)

\* The characters /[^0-9+\-*/().%\s]/ lets through.
CalcAllowed ==
    {"0", "1", "2", "3", "4", "42", "+", "-", "*", "/", "(", ")", ".", "%"}
        \cup WS

calculate(expression, net) ==
    LET Allowed(c) == c \in CalcAllowed
        sanitized == SelectSeq(expression, Allowed)
    IN IF sanitized # Trim(expression)
       THEN <<"Error:", "expression contains disallowed characters">>
       ELSE IF net.eval = "value" THEN <<"value">>
       ELSE <<"Calculation error:", "message">>

currentDatetime == <<"Current date and time (UTC):", "now">>

toolRegistry ==
    {"wikipedia", "search", "websearch", "calculate", "current_datetime",
     "datetime"}

\* String.prototype.toLowerCase on the names of the model.
toLowerCase(name) ==
    CASE name = "Search" -> "search"
      [] name = "Wikipedia" -> "wikipedia"
      [] name = "LLM" -> "llm"
      [] name = "Paris" -> "paris"
      [] name = "The" -> "the"
      [] name = "The answer is" -> "the answer is"
      [] name = "Open-ended" -> "open-ended"
      [] name = "What" -> "what"
      [] name = "France" -> "france"
      [] OTHER -> name

executeTool(name, toolInput, key, net) ==
    LET tool == toLowerCase(name)
    IN IF tool \notin toolRegistry
       THEN Resolved(<<"Error:", "Unknown tool", name>>)
       ELSE CASE tool = "wikipedia" -> wikipedia(toolInput, net)
              [] tool \in {"search", "websearch"} ->
                     openaiWebSearch(toolInput, key, net)
              [] tool = "calculate" -> Resolved(calculate(toolInput, net))
              [] OTHER -> Resolved(currentDatetime)

\* The ways a call of executeTool can settle, over what the network does.
ToolOutcomes(name, toolInput, key) ==
    {executeTool(name, toolInput, key, net) : net \in NetOutcomes}

NoToolRun ==
    [name |-> "", input |-> <<>>, key |-> FALSE, settled |-> "none",
     text |-> <<>>, failed |-> FALSE]

\* Whether the tool's own work failed under the network outcome net.
ToolFails(name, inp, key, net) ==
    LET tool == toLowerCase(name)
    IN \/ tool \notin toolRegistry
       \/ tool = "wikipedia" /\ net.wiki = "throw"
       \/ /\ tool \in {"search", "websearch"}
          /\ ~key \/ net.search \notin {"content", "labelled"}
          /\ net.wiki = "throw"
       \/ /\ tool = "calculate"
          /\ StartsWith(calculate(inp, net), "Error:") \/ net.eval = "throw"

(***************************************************************************)
(* A stand-alone driver of callLLM: it invokes callLLM, awaits it, and     *)
(* invokes it again, MaxInvocations times.                                 *)
(***************************************************************************)
NoResult == [framework |-> "none"]

\* The state shared by every specification before a run starts.
InitCommon ==
    /\ aborted = FALSE
    /\ call = [s \in Slots |-> IdleCall]
    /\ callLog = <<>>
    /\ outcome = "none"
    /\ result = NoResult
    /\ turn = 0
    /\ messages = <<>>
    /\ trajectory = <<>>
    /\ usages = 0
    /\ events = <<>>
    /\ action = NoAction
    /\ toolRun = NoToolRun
    /\ planText = <<>>
    /\ steps = <<>>
    /\ evidence = <<>>
    /\ stepIdx = 0
    /\ input = <<>>
    /\ plan = <<>>
    /\ currentStep = <<>>
    /\ pastSteps = <<>>
    /\ replanCount = 0
    /\ finalAnswer = NULL
    /\ llmCalls = 0
    /\ execUsages = 0
    /\ execResponse = <<>>
    /\ paths = <<>>
    /\ questionType = "none"
    /\ classUsage = FALSE
    /\ answers = <<>>
    /\ merged = <<>>
    /\ promises = <<>>
    /\ results = <<>>
    /\ cancelled = FALSE
    /\ running = TRUE
    /\ stopped = FALSE

InitLLM ==
    /\ InitCommon
    /\ frameworks = {}
    /\ question = <<"question">>
    /\ apiKey = TRUE
    /\ pc = "driver"

DriverInvoke ==
    /\ pc = "driver"
    /\ call[1].pc = "idle"
    /\ nCalls < MaxInvocations
    /\ call' = [call EXCEPT ![1] = Invoke]
    /\ callLog' = Append(callLog, "driver")
    /\ UNCHANGED <<aborted, pc, outcome, result, engineVars>>

DriverResume ==
    /\ pc = "driver"
    /\ Settled(call[1])
    /\ call' = [call EXCEPT ![1] = IdleCall]
    /\ UNCHANGED <<aborted, runVars, engineVars>>

NextLLM == Abort \/ DriverInvoke \/ DriverResume \/ LLMStep

SpecLLM == InitLLM /\ [][NextLLM]_vars

(***************************************************************************)
(* A stand-alone driver of executeTool: any name, input and credential,    *)
(* under any outcome of the tool's network requests.                       *)
(***************************************************************************)
ToolNames == toolRegistry \cup {"Search", "Foo"}

ToolInputs ==
    { <<"q">>, <<"2", "*", "3">>, <<"2", ";", "drop">>, <<" ", "2", "+", "2">>,
      <<"(">> }

InitTool ==
    /\ InitCommon
    /\ frameworks = {}
    /\ question = <<"question">>
    /\ apiKey \in BOOLEAN
    /\ pc = "tools"

ExecuteTool ==
    /\ pc = "tools"
    /\ \E name \in ToolNames, inp \in ToolInputs, net \in NetOutcomes :
         LET r == executeTool(name, inp, apiKey, net)
         IN toolRun' = [name |-> name, input |-> inp, key |-> apiKey,
                        settled |-> r.settled, text |-> r.text,
                        failed |-> ToolFails(name, inp, apiKey, net)]
    /\ UNCHANGED <<aborted, call, runVars, apiKey, runnerVars, usages, events,
                   reactVars, rewooVars>>
    /\ UNCHANGED <<peVars, cotVars>>

NextTool == ExecuteTool

SpecTool == InitTool /\ [][NextTool]_vars

\* C4: executeTool's promise never rejects, and every failure of a tool is
\* returned as a text prefixed "Error: " or "Calculation error: ".
C4_ExecuteToolNeverRejects ==
    /\ toolRun.settled # "rejected"
    /\ toolRun.failed =>
          \/ StartsWith(toolRun.text, "Error:")
          \/ StartsWith(toolRun.text, "Calculation error:")

\* C23: calculate rejects an expression with the disallowed-characters
\* error if and only if the expression holds a character other than digits,
\* + - * / ( ) . % and whitespace; an expression of allowed characters only,
\* leading or trailing whitespace included, is evaluated.
C23_RejectedIffDisallowedCharacter ==
    (toolRun.settled # "none" /\ toLowerCase(toolRun.name) = "calculate") =>
        LET disallowed == \E i \in 1..Len(toolRun.input) :
                              toolRun.input[i] \notin CalcAllowed
            rejected == toolRun.text =
                <<"Error:", "expression contains disallowed characters">>
            evaluated == \/ toolRun.text = <<"value">>
                         \/ StartsWith(toolRun.text, "Calculation error:")
        IN /\ rejected <=> disallowed
           /\ ~disallowed => evaluated
           /\ rejected => ~evaluated

(***************************************************************************)
(* Claims about callLLM.                                                   *)
(***************************************************************************)
\* The transient status classes the documentation names: 429 and every 5xx.
IsTransientStatus(st) == st = 429 \/ st \in 500..599

\* C2: every response whose status is 429 or 5xx is retried (it is never the
\* final, non-retried response of an invocation), and no invocation issues
\* more than MAX_RETRIES + 1 requests.
C2_EveryTransientStatusRetried ==
    \A s \in Slots :
        /\ call[s].reqs <= MAX_RETRIES + 1
        /\ call[s].lastError.kind = "final"
              => ~IsTransientStatus(call[s].lastError.status)

\* C3: once the signal is triggered, callLLM issues no new request, a pending
\* backoff wait ends with the cancellation condition, and every pending
\* invocation ends by throwing AbortError: it neither retries nor returns a
\* result nor fails with another error.
C3_AbortAlwaysYieldsAbortError ==
    [][ /\ \A s \in Slots : aborted => call'[s].reqs <= call[s].reqs
        /\ \A s \in Slots :
             (aborted /\ Pending(call[s]) /\ call'[s] # call[s])
                => (call'[s].pc = "thrown" /\ call'[s].error = "AbortError")
      ]_vars

\* C15: a response with a non-retryable failure status makes callLLM fail
\* at once: from the arrival of that response to the throw there is no
\* backoff wait and no further request, and the error thrown carries the
\* provider's message when the body gave one and "LLM API error: {status}",
\* with the status of that response, when it gave none.
C15_NonRetryableFailsImmediately ==
    [][ \A s \in Slots :
          /\ (call[s].pc = "fetch" /\ call'[s].pc = "bodyErr") =>
                /\ call'[s].lastError.kind = "final"
                /\ call'[s].lastError.status \notin RETRYABLE_STATUSES
                /\ call'[s].lastError.status # 200
                /\ call'[s].lastError.attempt = call[s].reqs
                /\ call'[s].reqs = call[s].reqs
                /\ call'[s].waits = call[s].waits
          /\ (call[s].pc = "bodyErr" /\ call'[s] # call[s]) =>
                /\ call'[s].pc = "thrown"
                /\ call'[s].error \in {"ProviderMessage", "ApiError"}
                /\ call'[s].lastError = call[s].lastError
                /\ call'[s].reqs = call[s].reqs
                /\ call'[s].waits = call[s].waits
          /\ (call'[s].pc = "thrown"
                 /\ call'[s].error \in {"ProviderMessage", "ApiError"}) =>
                call[s].pc = "bodyErr" \/ call'[s] = call[s]
      ]_vars

\* A second request, made after one backoff wait, was answered with a
\* non-retryable status and the call threw the provider's message.
C15_Witness ==
    \E s \in Slots :
        /\ call[s].pc = "thrown"
        /\ call[s].error = "ProviderMessage"
        /\ call[s].lastError.kind = "final"
        /\ call[s].reqs = 2
        /\ call[s].waits = 1

\* C16: an invocation all of whose MAX_RETRIES + 1 attempts failed with a
\* retryable condition (a network failure or a retryable status) does not
\* return: it throws the error of its last attempt, after exactly
\* MAX_RETRIES backoff waits and MAX_RETRIES + 1 requests; and an
\* invocation throws its last error in no other case.
C16_ExhaustedRetriesThrowLastError ==
    \A s \in Slots :
        /\ ( /\ Settled(call[s])
             /\ call[s].reqs = MAX_RETRIES + 1
             /\ call[s].lastError.kind \in {"net", "status"}
             /\ call[s].lastError.attempt = MAX_RETRIES + 1 )
              => /\ call[s].pc = "thrown"
                 /\ call[s].error = "LastError"
                 /\ call[s].waits = MAX_RETRIES
        /\ (call[s].pc = "thrown" /\ call[s].error = "LastError")
              => /\ call[s].reqs = MAX_RETRIES + 1
                 /\ call[s].waits = MAX_RETRIES
                 /\ call[s].lastError.kind \in {"net", "status"}
                 /\ call[s].lastError.attempt = MAX_RETRIES + 1
                 /\ call[s].lastError.kind = "status"
                       => call[s].lastError.status \in RETRYABLE_STATUSES

\* Four attempts failed, the last one by a network failure.
C16_Witness ==
    \E s \in Slots :
        /\ call[s].pc = "thrown"
        /\ call[s].error = "LastError"
        /\ call[s].lastError.kind = "net"
        /\ call[s].waits = MAX_RETRIES

\* The request of invocation s fails in this step with a transport error
\* other than AbortError.
TransportFailure(s) ==
    /\ call[s].pc = "fetch"
    /\ call'[s].lastError =
          [kind |-> "net", status |-> 0, attempt |-> call[s].attempt + 1]
    /\ call'[s].lastError # call[s].lastError

\* C36: a request that fails with a transport error other than AbortError
\* is handled as a response with a retryable status is: before the fourth
\* attempt callLLM goes to the same backoff wait (1000, 2000, 4000 ms) and
\* retries, and after the fourth it throws that last transport error; a
\* request that fails with AbortError makes callLLM throw it at once, with
\* no wait and no further request.
C36_TransportFailureRetriedLikeStatus ==
    [][ \A s \in Slots :
          /\ TransportFailure(s) =>
                /\ ~aborted
                /\ \A st \in RETRYABLE_STATUSES :
                      call'[s] = [AfterResponse(call[s], st)
                                    EXCEPT !.lastError = call'[s].lastError]
                /\ call[s].attempt < MAX_RETRIES =>
                      /\ call'[s].pc = "backoff"
                      /\ call'[s].attempt = call[s].attempt + 1
                      /\ call'[s].reqs = call[s].reqs
                      /\ call'[s].delays =
                            Append(call[s].delays,
                                   BASE_DELAY_MS * Pow2(call[s].attempt))
                /\ call[s].attempt = MAX_RETRIES =>
                      /\ call'[s].pc = "thrown"
                      /\ call'[s].error = "LastError"
                      /\ call'[s].reqs = MAX_RETRIES + 1
                      /\ call'[s].delays = <<1000, 2000, 4000>>
          /\ (call[s].pc = "fetch" /\ aborted /\ call'[s] # call[s]) =>
                /\ call'[s].pc = "thrown"
                /\ call'[s].error = "AbortError"
                /\ call'[s].reqs = call[s].reqs
                /\ call'[s].waits = call[s].waits
                /\ call'[s].lastError = call[s].lastError
      ]_vars

\* The fourth request failed with a transport error, after the three
\* backoff waits, and the call threw that error.
C36_Witness ==
    \E s \in Slots :
        /\ call[s].pc = "thrown"
        /\ call[s].error = "LastError"
        /\ call[s].lastError = [kind |-> "net", status |-> 0, attempt |-> 4]
        /\ call[s].reqs = 4
        /\ call[s].delays = <<1000, 2000, 4000>>

\* The sum of the first n delays of a sequence.
RECURSIVE SumDelays(_, _)
SumDelays(d, n) == IF n = 0 THEN 0 ELSE d[n] + SumDelays(d, n - 1)

\* C24: the timer set before the k-th retry of a callLLM invocation is
\* 1000 * 2^(k-1) ms (1000, 2000, 4000); a wait precedes every retry and
\* never the first attempt; the timers of one invocation sum to at most
\* 7000 ms.
C24_BackoffDoublesFromOneSecond ==
    \A s \in Slots :
        LET c == call[s]
        IN /\ Len(c.delays) = c.waits
           /\ c.waits <= MAX_RETRIES
           /\ \A k \in 1..Len(c.delays) : c.delays[k] = 1000 * Pow2(k - 1)
           /\ c.delays = SubSeq(<<1000, 2000, 4000>>, 1, c.waits)
           /\ SumDelays(c.delays, Len(c.delays)) <= 7000
           /\ c.reqs <= c.waits + 1
           /\ c.reqs >= 1 => c.waits >= c.reqs - 1
           /\ c.pc = "fetch" => c.reqs = c.waits + 1 /\ c.waits = c.attempt
           /\ c.pc = "backoff" => c.reqs = c.waits /\ c.waits = c.attempt

\* The third retry is in flight: three waits were made, 7000 ms in all.
C24_Witness ==
    \E s \in Slots :
        /\ call[s].pc = "fetch"
        /\ call[s].reqs = 4
        /\ call[s].delays = <<1000, 2000, 4000>>

(***************************************************************************)
(* runReAct  (src/src/frameworks/llm.js, module react)                     *)
(***************************************************************************)
\* The replies the scripted LLM may give to a ReAct turn.
ReActReplies ==
    { <<"Thought:", "t", "\n", "Action:", "search", ":", "q", "\n", "PAUSE">>,
      <<"Action:", "calculate", ":", "2", "*", "3", "\n", "PAUSE">>,
      <<"Action:", "Foo", ":", "q">>,
      <<"Thought:", "t", "\n", "Answer:", "42">>,
      <<"Thought:", "t">>,
      <<"Answer:", "\n">>,
      <<"Action:", "wikipedia", ":", "q", "\n", "Answer:", "42">>,
      <<"Action:", "search", ":", "q", "\n", "Answer:">> }

SystemMessage == [role |-> "system", content |-> <<"system prompt">>]
UserMessage(text) == [role |-> "user", content |-> text]
AssistantMessage(text) == [role |-> "assistant", content |-> text]
\* A user message that is not the corrective nudge.
NudgeAsObservation == [role |-> "user", content |-> <<"Observation:">>]

Nudge == UserMessage(<<"Please respond with either:", "Action:", "Answer:">>)

\* An off-by-one loop condition.
ReActTurnsLeftInclusive(t) == t <= maxTurns

\* The loop condition of runReAct.
ReActTurnsLeft(t) == t < maxTurns

\* The two checks in the wrong order: the action check first.
ReActBranchActionFirst(response) ==
    IF parseReActAction(response).found THEN "action"
    ELSE IF Truthy(parseReActAnswer(response)) THEN "answer"
    ELSE "confused"

\* What runReAct does with a reply: the answer check, then the action check.
ReActBranch(response) ==
    IF Truthy(parseReActAnswer(response)) THEN "answer"
    ELSE IF parseReActAction(response).found THEN "action"
    ELSE "confused"

\* The last entry's content, or '' for an empty trajectory.
LastContent(traj) == IF traj = <<>> THEN <<>> ELSE traj[Len(traj)].content

\* The result returned when the loop ends without an answer.
TruncatedResult(traj, us) ==
    LET partialAnswer == parseReActAnswer(LastContent(traj))
    IN [framework |-> "ReAct",
        answer |-> IF Truthy(partialAnswer) THEN partialAnswer ELSE NULL,
        error |-> <<"Exceeded maximum turns">>,
        truncated |-> TRUE,
        trajectory |-> traj,
        turns |-> turn,
        usage |-> us,
        llmCalls |-> turn]

\* The head of the while loop: the next turn's callLLM, or the truncated
\* result.  A field the source leaves out of a result is FALSE / NULL.
ReActLoopHead(traj, us) ==
    IF ReActTurnsLeft(turn)
    THEN /\ turn' = turn + 1
         /\ call' = [call EXCEPT ![1] = Invoke]
         /\ callLog' = Append(callLog, "turn")
         /\ pc' = "awaitLLM"
         /\ UNCHANGED <<outcome, result>>
    ELSE /\ result' = TruncatedResult(traj, us)
         /\ outcome' = "result"
         /\ pc' = "done"
         /\ call' = [call EXCEPT ![1] = IdleCall]
         /\ UNCHANGED <<turn, callLog>>

InitReAct ==
    /\ InitCommon
    /\ frameworks = {}
    /\ question = <<"question">>
    /\ apiKey \in BOOLEAN
    /\ pc = "start"

ReActStart ==
    /\ pc = "start"
    /\ messages' = <<SystemMessage, UserMessage(<<"question">>)>>
    /\ ReActLoopHead(trajectory, usages)
    /\ UNCHANGED <<aborted, apiKey, runnerVars, trajectory, usages, events, action, toolRun, rewooVars>>
    /\ UNCHANGED <<peVars, cotVars>>

\* callLLM returned: the rest of the turn up to the next await or return.
ReActReply ==
    /\ pc = "awaitLLM"
    /\ call[1].pc = "returned"
    /\ \E response \in ReActReplies :
         LET traj == Append(trajectory,
                        [role |-> "assistant", content |-> response, turn |-> turn])
             evs == Append(events, [type |-> "llm", content |-> response, turn |-> turn])
             branch == ReActBranch(response)
             act == parseReActAction(response)
         IN /\ trajectory' = traj
            /\ usages' = usages + 1
            /\ CASE branch = "answer" ->
                      /\ result' = [framework |-> "ReAct",
                                    answer |-> parseReActAnswer(response),
                                    error |-> NULL,
                                    truncated |-> FALSE,
                                    trajectory |-> traj,
                                    turns |-> turn,
                                    usage |-> usages + 1,
                                    llmCalls |-> turn]
                      /\ outcome' = "result"
                      /\ pc' = "done"
                      /\ call' = [call EXCEPT ![1] = IdleCall]
                      /\ events' = evs
                      /\ UNCHANGED <<turn, callLog, messages, action>>
                 [] branch = "action" ->
                      /\ events' = Append(evs,
                            [type |-> "action",
                             content |-> <<act.actionName, ":">> \o act.actionInput,
                             turn |-> turn])
                      /\ action' = act
                      /\ pc' = "awaitTool"
                      /\ call' = [call EXCEPT ![1] = IdleCall]
                      /\ UNCHANGED <<turn, callLog, messages, outcome, result>>
                 [] OTHER ->
                      /\ messages' = messages \o <<AssistantMessage(response), Nudge>>
                      /\ events' = evs
                      /\ ReActLoopHead(traj, usages + 1)
                      /\ UNCHANGED action
    /\ UNCHANGED <<aborted, apiKey, runnerVars, toolRun, rewooVars>>
    /\ UNCHANGED <<peVars, cotVars>>

\* callLLM threw: runReAct has no try/catch, the error leaves the engine.
ReActThrow ==
    /\ pc = "awaitLLM"
    /\ call[1].pc = "thrown"
    /\ outcome' = IF call[1].error = "AbortError" THEN "AbortError" ELSE "Error"
    /\ pc' = "done"
    /\ call' = [call EXCEPT ![1] = IdleCall]
    /\ UNCHANGED <<aborted, callLog, result, engineVars>>

\* executeTool settled: the observation, the two messages, the next turn.
ReActObservation ==
    /\ pc = "awaitTool"
    /\ \E r \in ToolOutcomes(action.actionName, action.actionInput, apiKey) :
         LET response == LastContent(trajectory)
             traj == Append(trajectory,
                        [role |-> "observation", content |-> r.text, turn |-> turn])
         IN IF r.settled = "rejected"
            THEN /\ outcome' = "ToolError"
                 /\ pc' = "done"
                 /\ UNCHANGED <<call, callLog, result, turn, messages,
                                trajectory, events>>
            ELSE /\ trajectory' = traj
                 /\ events' = Append(events,
                       [type |-> "observation", content |-> r.text, turn |-> turn])
                 /\ messages' = messages \o
                       <<AssistantMessage(response),
                         UserMessage(<<"Observation:">> \o r.text)>>
                 /\ ReActLoopHead(traj, usages)
    /\ action' = NoAction
    /\ UNCHANGED <<aborted, apiKey, runnerVars, usages, toolRun, rewooVars>>
    /\ UNCHANGED <<peVars, cotVars>>

NextReAct ==
    Abort \/ LLMStep \/ ReActStart \/ ReActReply \/ ReActThrow \/ ReActObservation

SpecReAct == InitReAct /\ [][NextReAct]_vars

(***************************************************************************)
(* Claims about runReAct.                                                  *)
(***************************************************************************)
\* Every LLM reply of the trajectory is a well-formed action, not an answer.
ActionOnly(traj) ==
    /\ traj # <<>>
    /\ \A i \in 1..Len(traj) :
          traj[i].role = "assistant" => ReActBranch(traj[i].content) = "action"

\* C6 (amended): with an LLM that always replies with a well-formed action
\* and never an answer, runReAct takes at most maxTurns turns, and when it
\* returns it has taken exactly maxTurns turns (one callLLM each), with
\* truncated = true and a trajectory of exactly 2 * maxTurns entries.
C6_ActionOnlyRunEndsAtMaxTurns ==
    /\ turn <= maxTurns
    /\ (outcome = "result" /\ ActionOnly(result.trajectory)) =>
          /\ result.truncated
          /\ result.turns = maxTurns
          /\ nCalls = maxTurns
          /\ Len(result.trajectory) = 2 * maxTurns

\* C6 as stated: the trajectory has 2 * maxTurns - 1 or fewer entries.
C6_TrajectoryShorterThanTwicePerTurn ==
    (outcome = "result" /\ ActionOnly(result.trajectory)) =>
        /\ result.truncated
        /\ result.turns = maxTurns
        /\ Len(result.trajectory) <= 2 * maxTurns - 1

C6_Witness ==
    /\ outcome = "result"
    /\ ActionOnly(result.trajectory)
    /\ result.truncated
    /\ result.turns = maxTurns

ConfusedReply ==
    /\ pc = "awaitLLM"
    /\ call[1].pc = "returned"
    /\ Len(trajectory') = Len(trajectory) + 1
    /\ ~Truthy(parseReActAnswer(trajectory'[Len(trajectory')].content))
    /\ ~parseReActAction(trajectory'[Len(trajectory')].content).found

\* C25: a reply of runReAct with neither an answer nor a well-formed action
\* runs no tool, appends exactly two messages (the raw reply as assistant,
\* then the nudge as user), adds only the reply to the trajectory and no
\* observation, and uses up one turn.  No error is set by it: while turns
\* are left the next turn's LLM call is made; after the last turn of the
\* budget the loop ends as it does for any other turn.
C25_ConfusedReplyIsNudged ==
    [][ ConfusedReply =>
          LET reply == trajectory'[Len(trajectory')]
          IN /\ reply.role = "assistant"
             /\ reply.turn = turn
             /\ SubSeq(trajectory', 1, Len(trajectory)) = trajectory
             /\ messages' = messages \o
                   << [role |-> "assistant", content |-> reply.content],
                      [role |-> "user",
                       content |-> <<"Please respond with either:",
                                     "Action:", "Answer:">>] >>
             /\ toolRun' = toolRun
             /\ action' = action
             /\ pc' # "awaitTool"
             /\ outcome' \notin {"Error", "ToolError", "AbortError"}
             /\ turn < maxTurns =>
                   /\ outcome' = "none"
                   /\ turn' = turn + 1
                   /\ pc' = "awaitLLM"
                   /\ call'[1].pc \notin {"idle", "returned"}
                   /\ Len(callLog') = Len(callLog) + 1
             /\ turn >= maxTurns =>
                   /\ outcome' = "result"
                   /\ result'.truncated
                   /\ result'.turns = maxTurns
      ]_vars

\* A run went on after a nudge: the conversation holds the nudge and a later
\* turn was taken.
C25_Witness ==
    /\ \E i \in 1..Len(messages) :
          /\ messages[i].role = "user"
          /\ messages[i].content[1] = "Please respond with either:"
    /\ \E i \in 1..Len(trajectory) :
          /\ trajectory[i].role = "assistant"
          /\ trajectory[i].content = <<"Thought:", "t">>
          /\ trajectory[i].turn < turn
    /\ pc = "awaitLLM"

\* The LLM reply of the final turn: the last assistant entry.
RECURSIVE LastReply(_)
LastReply(traj) ==
    IF traj = <<>> THEN <<>>
    ELSE IF traj[Len(traj)].role = "assistant" THEN traj[Len(traj)].content
    ELSE LastReply(SubSeq(traj, 1, Len(traj) - 1))

\* C18: a runReAct result returned on the exhaustion of maxTurns has
\* truncated = true, a non-empty error message and llmCalls = turns =
\* maxTurns, and its answer is the answer parsed from the LLM reply of the
\* final turn, null when that reply holds none: never text of a tool
\* observation.
C18_TruncatedAnswerFromFinalReply ==
    (outcome = "result" /\ result.framework = "ReAct" /\ result.truncated) =>
        /\ result.error # NULL /\ result.error # <<>>
        /\ result.turns = maxTurns
        /\ result.llmCalls = maxTurns
        /\ nCalls = maxTurns
        /\ result.answer =
              IF Truthy(parseReActAnswer(LastReply(result.trajectory)))
              THEN parseReActAnswer(LastReply(result.trajectory))
              ELSE NULL

\* A reply that is a well-formed action and carries no answer.
ActionWithoutAnswer(response) ==
    /\ ~Truthy(parseReActAnswer(response))
    /\ parseReActAction(response).found

\* The positions of the assistant entries of a trajectory up to position i.
AssistantEntries(traj, i) == {j \in 1..i : traj[j].role = "assistant"}

\* The trajectory is one assistant entry per turn, in turn order, each
\* followed by its observation exactly when its reply was an action without
\* an answer.  The one entry that may still lack its observation is that of
\* the turn whose tool call has not returned.
TrajectoryShape ==
    LET traj == trajectory
        T == Cardinality(AssistantEntries(traj, Len(traj)))
        toolNotReturned == pc = "awaitTool" \/ outcome = "ToolError"
    IN /\ T \in {turn - 1, turn} \cap Nat
       /\ \A i \in 1..Len(traj) :
             /\ traj[i].role \in {"assistant", "observation"}
             /\ traj[i].role = "assistant" =>
                   /\ traj[i].turn = Cardinality(AssistantEntries(traj, i))
                   /\ (i = Len(traj) /\ toolNotReturned)
                        \/ ((i < Len(traj) /\ traj[i + 1].role = "observation")
                              <=> ActionWithoutAnswer(traj[i].content))
             /\ traj[i].role = "observation" =>
                   /\ i > 1
                   /\ traj[i - 1].role = "assistant"
                   /\ traj[i - 1].turn = traj[i].turn
       /\ toolNotReturned =>
             /\ T = turn
             /\ traj[Len(traj)].role = "assistant"
             /\ ActionWithoutAnswer(traj[Len(traj)].content)
       /\ outcome = "result" =>
             /\ T = turn
             /\ result.trajectory = traj
             /\ result.turns = T

\* C32: runReAct only ever appends to its trajectory, and the trajectory
\* holds exactly one assistant entry for each turn taken, in increasing turn
\* order, each followed by at most one observation entry of the same turn;
\* the observation is there exactly when the turn's reply was a well-formed
\* action without an answer (for the turn in progress, once its tool call
\* has returned).
C32_TrajectoryAppendOnlyOnePerTurn ==
    [][/\ Len(trajectory') >= Len(trajectory)
       /\ SubSeq(trajectory', 1, Len(trajectory)) = trajectory
       /\ TrajectoryShape']_vars

\* A returned run with a turn that has an observation and one that has none.
C32_Witness ==
    /\ outcome = "result"
    /\ result.framework = "ReAct"
    /\ Len(result.trajectory) = 3
    /\ result.trajectory[2].role = "observation"
    /\ result.trajectory[3].role = "assistant"
    /\ result.trajectory[3].turn = 2

(***************************************************************************)
(* runReWOO  (src/src/frameworks/rewoo.js)                                 *)
(***************************************************************************)
\* The replies the scripted LLM may give to the planner prompt.
PlanReplies ==
    { <<"Plan:", "find", "#E1", "=", "wikipedia", "[", "q", "]", "\n",
        "Plan:", "ask", "#E2", "=", "LLM", "[", "what", "#E1", "]">>,
      <<"Plan:", "compute", "#E1", "=", "calculate", "[", "2", ";", "3", "]", "\n",
        "Plan:", "look", "#E2", "=", "Search", "[", "q", "#E1", "]">>,
      <<"Plan:", "compute", "#E1", "=", "calculate", "[", "2", "*", "3", "]">>,
      <<"first", "\n", "#E1", "=", "Foo", "[", "q", "]">>,
      <<"Plan:", "compute", "#E1", "=", "calculate", "[", "2", "*", "3", "]", "\n",
        "Plan:", "compute", "#E10", "=", "calculate", "[", "2", "*", "3", "]", "\n",
        "Plan:", "ask", "#E2", "=", "LLM", "[", "what", "#E10", "]">>,
      <<"Plan:", "compute", "#E1", "=", "calculate", "[", "2", "*", "3", "]", "\n",
        "Plan:", "ask", "#E1", "=", "LLM", "[", "what", "]">>,
      <<"Plan:", "ask", "#E1", "=", "LLM", "[", "what", "#E2", "]", "\n",
        "Plan:", "compute", "#E2", "=", "calculate", "[", "2", "*", "3", "]">>,
      <<"Plan:", "now", "#E1", "=", "current_datetime", "[", "]", "\n",
        "Plan:", "ask", "#E2", "=", "LLM", "[", "what", "#E1", "]">>,
      <<"no", "plan">> }

\* The replies to a pseudo-tool LLM step, and to the solver prompt.
StepReplies == { <<"Paris">>, <<"Error:", "unsure">> }
SolverReplies == { <<" ", "Paris", "\n">> }

\* The digits of a variable token, after its "#E".
VarDigits(tok) ==
    CASE tok = "#E1" -> <<"1">>
      [] tok = "#E2" -> <<"2">>
      [] tok = "#E3" -> <<"3">>
      [] tok = "#E10" -> <<"1", "0">>
      [] OTHER -> <<>>

\* A replacement of whole variable tokens only.
RECURSIVE replaceAllWhole(_, _, _)
replaceAllWhole(t, varName, value) ==
    IF t = <<>> THEN <<>>
    ELSE (IF Head(t) = varName THEN value ELSE <<Head(t)>>)
         \o replaceAllWhole(Tail(t), varName, value)

\* input.replaceAll(varName, String(value)): every occurrence of the
\* characters of varName is replaced, also at the start of a longer
\* variable token, whose remaining digits then follow the value.
RECURSIVE replaceAll(_, _, _)
replaceAll(t, varName, value) ==
    IF t = <<>> THEN <<>>
    ELSE LET d == VarDigits(Head(t))
             v == VarDigits(varName)
         IN (IF v # <<>> /\ Len(d) >= Len(v) /\ SubSeq(d, 1, Len(v)) = v
             THEN value \o SubSeq(d, Len(v) + 1, Len(d))
             ELSE IF Head(t) = varName THEN value
             ELSE <<Head(t)>>)
            \o replaceAll(Tail(t), varName, value)

\* The substitution loop over Object.entries(evidence), in insertion order.
RECURSIVE Substitute(_, _)
Substitute(t, ev) ==
    IF ev = <<>> THEN t
    ELSE Substitute(replaceAll(t, ev[1].variable, ev[1].value), Tail(ev))

\* evidence[variable]: the value, or NULL for undefined.
EvidenceGet(ev, variable) ==
    LET idx == {i \in 1..Len(ev) : ev[i].variable = variable}
    IN IF idx = {} THEN NULL ELSE ev[CHOOSE i \in idx : TRUE].value

\* evidence[variable] = value: a new key is appended, an old key keeps its
\* place in the insertion order.
EvidencePut(ev, variable, value) ==
    IF \E i \in 1..Len(ev) : ev[i].variable = variable
    THEN [i \in 1..Len(ev) |->
            IF ev[i].variable = variable
            THEN [variable |-> variable, value |-> value] ELSE ev[i]]
    ELSE Append(ev, [variable |-> variable, value |-> value])

\* `[FAILED: ${result}]`
Failed(text) == <<"[FAILED:">> \o text \o <<"]">>

\* The step the worker loop runs at position i, in reverse plan order.
StepAtReversed(stp, i) == stp[Len(stp) + 1 - i]

\* The step the worker loop runs at position i: for (const step of steps).
StepAt(stp, i) == stp[i]

\* The plan-with-evidence transcript of the solver phase.
RECURSIVE PlanWithEvidence(_, _, _)
PlanWithEvidence(stp, ev, i) ==
    IF i > Len(stp) THEN <<>>
    ELSE LET step == stp[i]
             got == EvidenceGet(ev, step.variable)
         IN <<"Plan:">> \o step.description
            \o <<"\n", step.variable, "=", step.tool, "[">>
            \o Substitute(step.toolInput, ev)
            \o <<"]", "\n", "Evidence:">>
            \o (IF Truthy(got) THEN got ELSE <<"N/A">>)
            \o <<"\n", "\n">>
            \o PlanWithEvidence(stp, ev, i + 1)

\* steps.filter((s) => s.tool.toLowerCase() === 'llm').length
RECURSIVE llmToolCalls(_)
llmToolCalls(stp) ==
    IF stp = <<>> THEN 0
    ELSE (IF toLowerCase(Head(stp).tool) = "llm" THEN 1 ELSE 0)
         + llmToolCalls(Tail(stp))

\* A callLLM invocation for the given purpose with the given messages.
CallLLM(purpose, msgs) ==
    /\ call' = [call EXCEPT ![1] = Invoke]
    /\ callLog' = Append(callLog, purpose)
    /\ messages' = msgs

\* The worker loop from position i on, up to its next await; after the last
\* step, the solver call.
ReWOOWorker(stp, ev, i) ==
    /\ stepIdx' = i
    /\ IF i <= Len(stp)
       THEN LET step == StepAt(stp, i)
                inp == Substitute(step.toolInput, ev)
            IN /\ input' = inp
               /\ IF toLowerCase(step.tool) = "llm"
                  THEN /\ CallLLM("step", <<UserMessage(inp)>>)
                       /\ pc' = "awaitStepLLM"
                  ELSE /\ pc' = "awaitStepTool"
                       /\ call' = [call EXCEPT ![1] = IdleCall]
                       /\ UNCHANGED <<callLog, messages>>
       ELSE /\ input' = <<>>
            /\ CallLLM("solver",
                   <<UserMessage(<<"Solve the following task">>
                                 \o PlanWithEvidence(stp, ev, 1))>>)
            /\ pc' = "awaitSolve"

InitReWOO ==
    /\ InitCommon
    /\ frameworks = {}
    /\ question = <<"question">>
    /\ apiKey \in BOOLEAN
    /\ pc = "start"

ReWOOStart ==
    /\ pc = "start"
    /\ CallLLM("planner", <<UserMessage(<<"planner prompt", "question">>)>>)
    /\ pc' = "awaitPlan"
    /\ UNCHANGED <<aborted, outcome, result, apiKey, runnerVars, usages, events, toolRun,
                   turn, trajectory, action, rewooVars>>
    /\ UNCHANGED <<peVars, cotVars>>

\* The planner's callLLM returned: the plan is parsed and the worker starts.
ReWOOPlan ==
    /\ pc = "awaitPlan"
    /\ call[1].pc = "returned"
    /\ \E content \in PlanReplies :
         /\ planText' = content
         /\ steps' = parseReWOOPlan(content)
         /\ events' = Append(events,
               [phase |-> "plan", planText |-> content, steps |-> steps'])
         /\ ReWOOWorker(steps', <<>>, 1)
    /\ usages' = usages + 1
    /\ evidence' = <<>>
    /\ UNCHANGED <<aborted, outcome, result, apiKey, runnerVars, toolRun, turn, trajectory,
                   action>>
    /\ UNCHANGED <<peVars, cotVars>>

\* The evidence of step stepIdx is stored, onStep fires, the loop goes on.
ReWOORecord(res, isError) ==
    LET step == StepAt(steps, stepIdx)
    IN /\ evidence' = EvidencePut(evidence, step.variable,
                                   IF isError THEN Failed(res) ELSE res)
       /\ events' = Append(events,
             [phase |-> "evidence", variable |-> step.variable,
              input |-> input, result |-> res, isError |-> isError])
       /\ ReWOOWorker(steps, evidence', stepIdx + 1)

\* The callLLM of a pseudo-tool LLM step returned.
ReWOOStepLLM ==
    /\ pc = "awaitStepLLM"
    /\ call[1].pc = "returned"
    /\ \E content \in StepReplies : ReWOORecord(content, FALSE)
    /\ usages' = usages + 1
    /\ UNCHANGED <<aborted, outcome, result, apiKey, runnerVars, toolRun, turn, trajectory,
                   action, planText, steps>>
    /\ UNCHANGED <<peVars, cotVars>>

\* executeTool of a step settled.
ReWOOStepTool ==
    /\ pc = "awaitStepTool"
    /\ \E r \in ToolOutcomes(StepAt(steps, stepIdx).tool, input, apiKey) :
            IF r.settled = "rejected"
            THEN /\ outcome' = "ToolError"
                 /\ pc' = "done"
                 /\ UNCHANGED <<call, callLog, messages, evidence, events,
                                stepIdx, input>>
            ELSE /\ ReWOORecord(r.text, StartsWith(r.text, "Error:"))
                 /\ UNCHANGED outcome
    /\ UNCHANGED <<aborted, result, apiKey, runnerVars, usages, toolRun, turn, trajectory,
                   action, planText, steps>>
    /\ UNCHANGED <<peVars, cotVars>>

\* The solver's callLLM returned: the run returns its result.
ReWOOSolve ==
    /\ pc = "awaitSolve"
    /\ call[1].pc = "returned"
    /\ \E content \in SolverReplies :
         LET answer == Trim(content)
         IN /\ events' = Append(events, [phase |-> "solve", answer |-> answer])
            /\ result' = [framework |-> "ReWOO",
                          planText |-> planText,
                          steps |-> steps,
                          evidence |-> evidence,
                          answer |-> answer,
                          usage |-> usages + 1,
                          llmCalls |-> 2 + llmToolCalls(steps)]
    /\ usages' = usages + 1
    /\ outcome' = "result"
    /\ pc' = "done"
    /\ call' = [call EXCEPT ![1] = IdleCall]
    /\ UNCHANGED <<aborted, callLog, apiKey, runnerVars, toolRun, reactVars, rewooVars>>
    /\ UNCHANGED <<peVars, cotVars>>

\* A callLLM of the run threw: runReWOO has no try/catch.
ReWOOThrow ==
    /\ pc \in {"awaitPlan", "awaitStepLLM", "awaitSolve"}
    /\ call[1].pc = "thrown"
    /\ outcome' = IF call[1].error = "AbortError" THEN "AbortError" ELSE "Error"
    /\ pc' = "done"
    /\ call' = [call EXCEPT ![1] = IdleCall]
    /\ UNCHANGED <<aborted, callLog, result, engineVars>>

NextReWOO ==
    \/ Abort \/ LLMStep
    \/ ReWOOStart \/ ReWOOPlan \/ ReWOOStepLLM \/ ReWOOStepTool \/ ReWOOSolve
    \/ ReWOOThrow

SpecReWOO == InitReWOO /\ [][NextReWOO]_vars

(***************************************************************************)
(* Properties of runReWOO                                                  *)
(***************************************************************************)
\* The callLLM invocations of a run over the steps stp from position i on:
\* one per pseudo-tool LLM step, then the solver's.
RECURSIVE WorkerCalls(_, _)
WorkerCalls(stp, i) ==
    IF i > Len(stp) THEN <<"solver">>
    ELSE (IF toLowerCase(stp[i].tool) = "llm" THEN <<"step">> ELSE <<>>)
         \o WorkerCalls(stp, i + 1)

\* C8: every runReWOO run that returns made one planner call, then ran the
\* parsed steps one at a time in plan order, then made one solver call; the
\* plan it returns is the plan it parsed, and the progress events are one
\* 'plan', one 'evidence' per step in plan order, one 'solve'.
C8_PlanWorkSolveInOrder ==
    outcome = "result" =>
        /\ result.steps = parseReWOOPlan(result.planText)
        /\ callLog = <<"planner">> \o WorkerCalls(result.steps, 1)
        /\ Len(events) = Len(result.steps) + 2
        /\ events[1].phase = "plan"
        /\ events[1].steps = result.steps
        /\ \A i \in 1..Len(result.steps) :
              /\ events[i + 1].phase = "evidence"
              /\ events[i + 1].variable = result.steps[i].variable
        /\ events[Len(events)].phase = "solve"

\* A run returned after a plan of two steps with different variables.
C8_Witness ==
    /\ outcome = "result"
    /\ Len(result.steps) = 2
    /\ result.steps[1].variable # result.steps[2].variable
    /\ events[2].phase = "evidence"
    /\ events[3].phase = "evidence"

\* The tool input with every reference to a variable of the evidence map
\* replaced by that variable's value, every other token left as it is.
RECURSIVE ExactSubstitute(_, _)
ExactSubstitute(t, ev) ==
    IF t = <<>> THEN <<>>
    ELSE (IF Head(t) \in VarTokens /\ EvidenceGet(ev, Head(t)) # NULL
          THEN EvidenceGet(ev, Head(t)) ELSE <<Head(t)>>)
         \o ExactSubstitute(Tail(t), ev)

\* C26: the input a worker step of runReWOO runs with is its tool input with
\* every reference to a variable already in the evidence map replaced by
\* exactly that variable's value, and every reference to a variable not yet
\* resolved left as it is, whatever the variable numbers are (#E10 too).
C26_ResolvedReferencesSubstituted ==
    (pc \in {"awaitStepLLM", "awaitStepTool"} /\ stepIdx \in 1..Len(steps)) =>
        input = ExactSubstitute(steps[stepIdx].toolInput, evidence)

\* C27: in the worker phase of runReWOO the evidence map gains exactly one
\* new key per executed step, no key is removed and no stored value is
\* overwritten, and when the worker phase ends it has exactly one entry per
\* parsed plan step.
C27_EvidenceGrowsOneKeyPerStep ==
    [][ /\ \A i \in 1..Len(evidence) :
              /\ i <= Len(evidence')
              /\ evidence'[i] = evidence[i]
        /\ ( /\ pc \in {"awaitStepLLM", "awaitStepTool"}
             /\ stepIdx' = stepIdx + 1 )
              => Len(evidence') = Len(evidence) + 1
        /\ pc' = "awaitSolve" => Len(evidence') = Len(steps')
      ]_vars

\* The transcript that shows, for every step from position i on, the input
\* its 'evidence' progress event reported as executed and the value stored
\* for its variable.  The event of step i follows the 'plan' event and the
\* events of the steps before it.
RECURSIVE ExecutedTranscript(_, _)
ExecutedTranscript(stp, i) ==
    IF i > Len(stp) THEN <<>>
    ELSE <<"Plan:">> \o stp[i].description
         \o <<"\n", stp[i].variable, "=", stp[i].tool, "[">>
         \o events[i + 1].input
         \o <<"]", "\n", "Evidence:">>
         \o EvidenceGet(evidence, stp[i].variable)
         \o <<"\n", "\n">>
         \o ExecutedTranscript(stp, i + 1)

\* C35: the transcript runReWOO sends to the solver shows, for each step,
\* the substituted input that the worker phase executed for that step and
\* the value stored for that step's variable.
C35_TranscriptShowsExecutedInputs ==
    pc = "awaitSolve" =>
        messages = <<UserMessage(<<"Solve the following task">>
                                 \o ExecutedTranscript(steps, 1))>>

\* An assignment '#E<n> = tool[...]' is written at index v of the planner's
\* reply, with or without an input between the brackets.
WrittenAssignAt(t, v) ==
    LET e == SkipWs(t, v + 1)
        w == SkipWs(t, e + 1)
        b == SkipWs(t, w + 1)
    IN /\ v <= Len(t) /\ t[v] \in VarTokens
       /\ e <= Len(t) /\ t[e] = "="
       /\ w <= Len(t) /\ IsWord(t[w])
       /\ b <= Len(t) /\ t[b] = "["
       /\ IndexFrom(t, "]", b + 1) > b

\* The steps the worker phase has executed: one 'evidence' event each.
ExecutedSteps == Cardinality({i \in 1..Len(events) : events[i].phase = "evidence"})

\* C38: every plan line written in an advertised tool form, the no-input
\* forms current_datetime[] and datetime[] too, is parsed and executed, so
\* when the worker phase of runReWOO has ended the number of executed steps
\* is the number of '#E<n> = tool[...]' assignments in the planner's reply.
C38_EveryWrittenStepExecuted ==
    pc = "awaitSolve" =>
        /\ Len(steps) = Cardinality({v \in 1..Len(planText) : WrittenAssignAt(planText, v)})
        /\ ExecutedSteps = Len(steps)

\* C9: a failing tool step never aborts a runReWOO run: the run never ends
\* because a step's tool execution failed.
C9_FailingToolNeverAbortsRun ==
    outcome # "ToolError"

(***************************************************************************)
(* parsePlanSteps  (src/src/utils/parser.js)                               *)
(***************************************************************************)
\* text.split('\n')
RECURSIVE Lines(_, _)
Lines(t, i) ==
    LET e == LineEnd(t, i)
    IN IF e > Len(t) THEN <<SubSeq(t, i, Len(t))>>
       ELSE <<SubSeq(t, i, e - 1)>> \o Lines(t, e + 1)

\* The tokens \d+[.)] matches, and the tokens [-*] matches.
NumberTokens == {"1.", "2.", "3.", "1)"}
BulletTokens == {"-", "*"}

\* /^\s*\d+[.)]\s*(.+)/ on one line: the captured step, trimmed, as a
\* one-element sequence; the empty sequence when the line does not match.
NumberedStep(line) ==
    LET i == SkipWs(line, 1)
    IN IF i < Len(line) /\ line[i] \in NumberTokens
       THEN <<Trim(SubSeq(line, i + 1, Len(line)))>> ELSE <<>>

\* /^\s*[-*]\s+(.+)/ on one line.
BulletStep(line) ==
    LET i == SkipWs(line, 1)
    IN IF i + 1 < Len(line) /\ line[i] \in BulletTokens /\ line[i + 1] \in WS
       THEN <<Trim(SubSeq(line, i + 1, Len(line)))>> ELSE <<>>

RECURSIVE NumberedSteps(_)
NumberedSteps(lines) ==
    IF lines = <<>> THEN <<>>
    ELSE NumberedStep(Head(lines)) \o NumberedSteps(Tail(lines))

RECURSIVE BulletSteps(_)
BulletSteps(lines) ==
    IF lines = <<>> THEN <<>>
    ELSE BulletStep(Head(lines)) \o BulletSteps(Tail(lines))

parsePlanSteps(text) ==
    IF NumberedSteps(Lines(text, 1)) # <<>>
    THEN NumberedSteps(Lines(text, 1)) ELSE BulletSteps(Lines(text, 1))

(***************************************************************************)
(* runPlanExecute and executeStep  (src/src/frameworks/planExecute.js)     *)
(***************************************************************************)
maxReplans == 1         \* runPlanExecute: the maxReplans option
ExecutorTurns == 8      \* executeStep: for (let turn = 0; turn < 8; turn++)

\* The replies the scripted LLM may give to the planner prompt, to an
\* executor turn and to the replanner prompt.
PlannerReplies ==
    { <<"1.", " ", "look", "\n", "2.", " ", "add">>,
      <<" ", "just", "answer", "\n">>,
      <<>> }
ExecReplies ==
    { <<"Answer:", "r">>,
      <<"Action:", "datetime", ":", "now", "\n", "PAUSE">>,
      <<"raw">>,
      <<>> }
ReplanReplies ==
    { <<"DONE:", " ", "final">>,
      <<"DONE:">>,
      <<"-", " ", "more">>,
      <<"unsure">> }

Numbering == <<"1.", "2.", "3.">>

\* plan.map((s, i) => `${i + 1}. ${s}`).join('\n')
RECURSIVE NumberedList(_, _)
NumberedList(pl, i) ==
    IF i > Len(pl) THEN <<>>
    ELSE (IF i > 1 THEN <<"\n">> ELSE <<>>)
         \o <<Numbering[i], " ">> \o pl[i] \o NumberedList(pl, i + 1)

\* pastSteps.map(([step, result]) => `Step: ${step}\nResult: ${result}`)
RECURSIVE StepsStr(_, _)
StepsStr(past, i) ==
    IF i > Len(past) THEN <<>>
    ELSE (IF i > 1 THEN <<"\n", "\n">> ELSE <<>>)
         \o <<"Step:", " ">> \o past[i][1] \o <<"\n", "Result:", " ">>
         \o past[i][2] \o StepsStr(past, i + 1)

buildReplannerPrompt(pl, past) ==
    <<"Your objective was:", "question", "Your original plan was:">>
    \o NumberedList(pl, 1) \o <<"You have completed these steps:">>
    \o StepsStr(past, 1)

\* The parsed steps alone, with no single-step substitute for an empty list.
InitialPlanParsedOnly(content) == parsePlanSteps(content)

\* The plan runPlanExecute starts from: the parsed steps, or the whole
\* planner text as a single step.
InitialPlan(content) ==
    IF Len(parsePlanSteps(content)) = 0
    THEN <<Trim(content)>> ELSE parsePlanSteps(content)

ExecError == <<"[Error:", "Step execution exceeded max turns.", "]">>

\* The error of a result that has no answer.
NoAnswerError ==
    <<"Plan-Execute did not produce a final answer within the allowed steps.">>

\* No fallback: the answer stays what the loop left.
NoFallback(past, i) == NULL

\* The fallback loop: the output of the last step that has a real result.
RECURSIVE Fallback(_, _)
Fallback(past, i) ==
    IF i = 0 THEN NULL
    ELSE IF Truthy(past[i][2]) /\ ~StartsWith(past[i][2], "[Error:")
         THEN past[i][2]
         ELSE Fallback(past, i - 1)

\* The error of a result whatever its answer is.
ResultErrorAlways(final) == NoAnswerError

\* error: finalAnswer ? undefined : '...'
ResultError(final) == IF Truthy(final) THEN NULL ELSE NoAnswerError

\* A loop condition that allows one replan more.
PEReplansLeftOneMore(rc) == rc <= maxReplans + 1

\* The second conjunct of the while condition of runPlanExecute.
PEReplansLeft(rc) == rc <= maxReplans

\* The end of runPlanExecute: the fallback and the returned object.
PEReturn(ptxt, pl, past, rc, fa, evs, us, lc) ==
    LET found == Fallback(past, Len(past))
        final == IF Truthy(fa) \/ found = NULL THEN fa ELSE found
    IN /\ result' = [framework |-> "Plan-Execute",
                     planText |-> ptxt,
                     pastSteps |-> past,
                     replans |-> rc,
                     answer |-> final,
                     error |-> ResultError(final),
                     usage |-> us,
                     llmCalls |-> lc]
       /\ outcome' = "result"
       /\ pc' = "done"
       /\ finalAnswer' = final
       /\ events' = evs
       /\ call' = [call EXCEPT ![1] = IdleCall]
       /\ plan' = pl
       /\ UNCHANGED <<callLog, messages, currentStep, turn, execUsages,
                      execResponse>>

\* The head of the while loop with the plan pl: the next step is taken off
\* the plan and executeStep makes its first callLLM; or the loop ends.
PELoopHead(ptxt, pl, past, rc, fa, evs, us, lc) ==
    IF pl # <<>> /\ PEReplansLeft(rc)
    THEN /\ currentStep' = Head(pl)
         /\ plan' = Tail(pl)
         /\ events' = Append(evs, [phase |-> "execute-start", step |-> Head(pl),
                                   stepIndex |-> Len(past)])
         /\ CallLLM("executor",
                <<[role |-> "system", content |-> <<"executor prompt">>],
                  UserMessage(<<"For the following plan:">>
                              \o NumberedList(Tail(pl), 1)
                              \o <<"Execute this step:">> \o Head(pl))>>)
         /\ turn' = 0
         /\ execUsages' = 0
         /\ finalAnswer' = fa
         /\ pc' = "awaitExecLLM"
         /\ UNCHANGED <<outcome, result, execResponse>>
    ELSE PEReturn(ptxt, pl, past, rc, fa, evs, us, lc)

InitPlanExecute ==
    /\ InitCommon
    /\ frameworks = {}
    /\ question = <<"question">>
    /\ apiKey = TRUE
    /\ pc = "start"

PEStart ==
    /\ pc = "start"
    /\ CallLLM("planner",
           <<[role |-> "system", content |-> <<"planner prompt">>],
             UserMessage(question)>>)
    /\ pc' = "awaitPlan"
    /\ UNCHANGED <<aborted, outcome, result, apiKey, runnerVars, usages, events, toolRun,
                   turn, trajectory, action, rewooVars, peVars, cotVars>>

\* The planner's callLLM returned: the plan, then the first step starts.
PEPlan ==
    /\ pc = "awaitPlan"
    /\ call[1].pc = "returned"
    /\ \E content \in PlannerReplies :
         /\ planText' = content
         /\ PELoopHead(content, InitialPlan(content), <<>>, 0, NULL,
                       Append(events, [phase |-> "plan", planText |-> content,
                                       steps |-> InitialPlan(content)]),
                       usages + 1, 1)
    /\ usages' = usages + 1
    /\ llmCalls' = 1
    /\ pastSteps' = <<>>
    /\ replanCount' = 0
    /\ UNCHANGED <<aborted, apiKey, runnerVars, toolRun, trajectory, action, steps,
                   evidence, stepIdx, input, cotVars>>

\* The result of the step recorded whether or not it failed.
StepOutputUnchecked(res, failed) == res

\* const stepOutput = execResult.error ? `[Error: ...]` : execResult.result
StepOutput(res, failed) == IF failed THEN ExecError ELSE res

\* executeStep returned to runPlanExecute: the step's output is recorded and
\* the replanner is called.
PEStepDone(res, failed, execUs) ==
    LET stepOutput == StepOutput(res, failed)
    IN /\ usages' = usages + execUs
       /\ llmCalls' = llmCalls + execUs
       /\ execUsages' = execUs
       /\ pastSteps' = Append(pastSteps, <<currentStep, stepOutput>>)
       /\ events' = Append(events, [phase |-> "execute-done",
                                    step |-> currentStep, result |-> stepOutput])
       /\ call' = [call EXCEPT ![1] = Invoke]
       /\ callLog' = Append(callLog, "replanner")
       /\ pc' = "awaitReplan"

\* A callLLM of executeStep returned.
PEExecReply ==
    /\ pc = "awaitExecLLM"
    /\ call[1].pc = "returned"
    /\ \E content \in ExecReplies :
         /\ execResponse' = content
         /\ IF Truthy(parseReActAnswer(content))
            THEN /\ PEStepDone(parseReActAnswer(content), FALSE, execUsages + 1)
                 /\ UNCHANGED action
            ELSE IF parseReActAction(content).found
            THEN /\ action' = parseReActAction(content)
                 /\ execUsages' = execUsages + 1
                 /\ pc' = "awaitExecTool"
                 /\ call' = [call EXCEPT ![1] = IdleCall]
                 /\ UNCHANGED <<callLog, usages, llmCalls, pastSteps,
                                events>>
            ELSE /\ PEStepDone(content, FALSE, execUsages + 1)
                 /\ UNCHANGED action
    /\ UNCHANGED <<aborted, outcome, result, apiKey, runnerVars, toolRun, turn, trajectory,
                   messages, rewooVars, plan, currentStep, replanCount,
                   finalAnswer, cotVars>>

\* executeTool of an executor turn settled: the two messages are pushed and
\* the for loop goes on, or ends after ExecutorTurns turns.
PEExecObservation ==
    /\ pc = "awaitExecTool"
    /\ \E r \in ToolOutcomes(action.actionName, action.actionInput, apiKey) :
         IF r.settled = "rejected"
         THEN /\ outcome' = "ToolError"
              /\ pc' = "done"
              /\ UNCHANGED <<call, callLog, messages, turn, usages,
                             llmCalls, execUsages, pastSteps, events>>
         ELSE /\ messages' = messages \o
                    <<AssistantMessage(execResponse),
                      UserMessage(<<"Observation:">> \o r.text)>>
              /\ turn' = turn + 1
              /\ IF turn + 1 < ExecutorTurns
                 THEN /\ call' = [call EXCEPT ![1] = Invoke]
                      /\ callLog' = Append(callLog, "executor")
                      /\ pc' = "awaitExecLLM"
                      /\ UNCHANGED <<outcome, usages, llmCalls, execUsages,
                                     pastSteps, events>>
                 ELSE /\ PEStepDone(NULL, TRUE, execUsages)
                      /\ UNCHANGED outcome
    /\ action' = NoAction
    /\ UNCHANGED <<aborted, result, apiKey, runnerVars, toolRun, trajectory, rewooVars,
                   plan, currentStep, replanCount, finalAnswer, execResponse,
                   cotVars>>

\* The text after DONE: taken as it is.
DoneAnswerUntrimmed(replanResponse) ==
    SubSeq(replanResponse, IndexFrom(replanResponse, "DONE:", 1) + 1,
           Len(replanResponse))

\* finalAnswer = doneMatch[1].trim(), for /DONE:\s*([\s\S]*)/
DoneAnswer(replanResponse) ==
    Trim(SubSeq(replanResponse, IndexFrom(replanResponse, "DONE:", 1) + 1,
                Len(replanResponse)))

\* The replanner's callLLM returned: done, a new plan, or no plan at all.
PEReplan ==
    /\ pc = "awaitReplan"
    /\ call[1].pc = "returned"
    /\ \E replanResponse \in ReplanReplies :
         LET d == IndexFrom(replanResponse, "DONE:", 1)
             doneAnswer == DoneAnswer(replanResponse)
             newSteps == parsePlanSteps(replanResponse)
             lastResult == pastSteps[Len(pastSteps)][2]
             lastAnswer == IF Truthy(lastResult) /\ ~StartsWith(lastResult, "[Error:")
                           THEN lastResult ELSE NULL
         IN IF d # 0
            THEN /\ replanCount' = replanCount
                 /\ PEReturn(planText, plan, pastSteps, replanCount, doneAnswer,
                       Append(events, [phase |-> "done", answer |-> doneAnswer]),
                       usages + 1, llmCalls + 1)
            ELSE IF Len(newSteps) > 0
            THEN /\ replanCount' = replanCount + 1
                 /\ PELoopHead(planText, newSteps, pastSteps, replanCount + 1,
                       finalAnswer,
                       Append(events, [phase |-> "replan", newPlan |-> newSteps,
                                       replanCount |-> replanCount + 1]),
                       usages + 1, llmCalls + 1)
            ELSE /\ replanCount' = replanCount
                 /\ PEReturn(planText, plan, pastSteps, replanCount, lastAnswer,
                       Append(events, [phase |-> "done", answer |-> lastAnswer]),
                       usages + 1, llmCalls + 1)
    /\ usages' = usages + 1
    /\ llmCalls' = llmCalls + 1
    /\ UNCHANGED <<aborted, apiKey, runnerVars, toolRun, trajectory, action, rewooVars,
                   pastSteps, cotVars>>

\* A callLLM of the run threw: neither function has a try/catch.
PEThrow ==
    /\ pc \in {"awaitPlan", "awaitExecLLM", "awaitReplan"}
    /\ call[1].pc = "thrown"
    /\ outcome' = IF call[1].error = "AbortError" THEN "AbortError" ELSE "Error"
    /\ pc' = "done"
    /\ call' = [call EXCEPT ![1] = IdleCall]
    /\ UNCHANGED <<aborted, callLog, result, engineVars>>

NextPlanExecute ==
    \/ Abort \/ LLMStep
    \/ PEStart \/ PEPlan \/ PEExecReply \/ PEExecObservation \/ PEReplan
    \/ PEThrow

SpecPlanExecute == InitPlanExecute /\ [][NextPlanExecute]_vars

\* C10: the replan counter of a runPlanExecute run never exceeds maxReplans.
C10_ReplansWithinMaxReplans ==
    /\ replanCount <= maxReplans
    /\ outcome = "result" => result.replans <= maxReplans

\* C11: runPlanExecute never starts execution with an empty plan: the plan
\* it announces has at least one step, a planner reply without any numbered
\* or bulleted line gives the single step equal to the trimmed planner text,
\* and the run goes on to execute the first step of the plan.
C11_EmptyParseGivesSingleStepPlan ==
    Len(events) >= 1 =>
        /\ events[1].phase = "plan"
        /\ events[1].planText = planText
        /\ events[1].steps # <<>>
        /\ parsePlanSteps(planText) = <<>>
              => events[1].steps = <<Trim(planText)>>
        /\ Len(events) >= 2
        /\ events[2].phase = "execute-start"
        /\ events[2].step = events[1].steps[1]
        /\ events[2].stepIndex = 0

C11_Witness ==
    /\ outcome = "result"
    /\ parsePlanSteps(result.planText) = <<>>
    /\ Len(result.pastSteps) >= 1
    /\ result.pastSteps[1][1] = Trim(result.planText)

(***************************************************************************)
(* The two engines that work under a budget, side by side: a run is a run  *)
(* of runReAct or a run of runPlanExecute.                                 *)
(***************************************************************************)
NextBudgeted == NextReAct \/ NextPlanExecute

SpecBudgeted == InitPlanExecute /\ [][NextBudgeted]_vars

\* The output of a past step is a real result: not empty, not an error.
RealResult(out) == out # NULL /\ out # <<>> /\ out[1] # "[Error:"

\* A returned runPlanExecute result whose loop ended on the replan budget.
ReplanBudgetExhausted ==
    /\ outcome = "result"
    /\ result.framework = "Plan-Execute"
    /\ result.replans > maxReplans

\* A returned runReAct result whose loop ended on the turn budget.
TurnBudgetExhausted ==
    /\ outcome = "result"
    /\ result.framework = "ReAct"
    /\ result.truncated

StepReturns ==
    /\ pc \in {"awaitExecLLM", "awaitExecTool"}
    /\ Len(pastSteps') = Len(pastSteps) + 1

\* C28: a step execution of Plan-Execute that returns made between 1 and 8
\* LLM calls and ended in exactly one of three ways: on an "Answer:" reply,
\* whose answer is the step result; on a reply that is neither an answer nor
\* a well-formed action, which is the step result as it is; or after 8
\* action replies, with the "[Error: ...]" text as the step result.  In all
\* three cases the replan call is issued next.
C28_StepEndsInOneOfThreeWays ==
    [][ StepReturns =>
          LET out == pastSteps'[Len(pastSteps')]
              reply == execResponse'
              onAnswer == /\ pc = "awaitExecLLM"
                          /\ Truthy(parseReActAnswer(reply))
                          /\ out[2] = parseReActAnswer(reply)
              onRaw == /\ pc = "awaitExecLLM"
                       /\ ~Truthy(parseReActAnswer(reply))
                       /\ ~parseReActAction(reply).found
                       /\ out[2] = reply
              onTurns == /\ pc = "awaitExecTool"
                         /\ execUsages' = 8
                         /\ out[2] = <<"[Error:",
                                       "Step execution exceeded max turns.",
                                       "]">>
          IN /\ out[1] = currentStep
             /\ execUsages' \in 1..8
             /\ llmCalls' = llmCalls + execUsages'
             /\ onAnswer \/ onRaw \/ onTurns
             /\ ~(onAnswer /\ onRaw) /\ ~(onAnswer /\ onTurns)
             /\ ~(onRaw /\ onTurns)
             /\ pc' = "awaitReplan"
             /\ callLog' = Append(callLog, "replanner")
             /\ call'[1].pc \notin {"idle", "returned"}
             /\ ~aborted => call'[1].pc = "fetch" /\ call'[1].reqs = 1
             /\ outcome' = "none"
      ]_vars

\* A step ended after 8 action replies and the replan call is in flight.
C28_Witness ==
    /\ pc = "awaitReplan"
    /\ pastSteps # <<>>
    /\ pastSteps[Len(pastSteps)][2] =
          <<"[Error:", "Step execution exceeded max turns.", "]">>
    /\ execUsages = 8
    /\ call[1].pc = "fetch"

\* The replanner's reply is handled in this step.
ReplanReturns == pc = "awaitReplan" /\ call[1].pc = "returned"

\* The replanner calls the run made.
ReplannerCalls ==
    Cardinality({i \in 1..Len(callLog) : callLog[i] = "replanner"})

\* The output of the most recent past step that has a real result, or dflt.
RECURSIVE LastReal(_, _, _)
LastReal(past, i, dflt) ==
    IF i = 0 THEN dflt
    ELSE IF RealResult(past[i][2]) THEN past[i][2]
    ELSE LastReal(past, i - 1, dflt)

\* The loop ends in this step with the answer a left by the loop; no step
\* is executed any more and the replan counter stays.
LoopEndsWith(a) ==
    /\ events' = Append(events, [phase |-> "done", answer |-> a])
    /\ outcome' = "result"
    /\ pc' = "done"
    /\ callLog' = callLog
    /\ pastSteps' = pastSteps
    /\ replanCount' = replanCount
    /\ result'.replans = replanCount
    /\ result'.pastSteps = pastSteps

\* A new plan replaces the remaining one and the counter goes up by one;
\* the loop then runs the first new step, or ends on its condition.
PlanReplacedBy(newSteps) ==
    /\ replanCount' = replanCount + 1
    /\ Len(events') >= Len(events) + 1
    /\ events'[Len(events) + 1] =
          [phase |-> "replan", newPlan |-> newSteps,
           replanCount |-> replanCount + 1]
    /\ pastSteps' = pastSteps
    /\ IF replanCount + 1 <= maxReplans
       THEN /\ currentStep' = newSteps[1]
            /\ plan' = Tail(newSteps)
            /\ pc' = "awaitExecLLM"
            /\ callLog' = Append(callLog, "executor")
            /\ outcome' = "none"
       ELSE /\ outcome' = "result"
            /\ callLog' = callLog
            /\ result'.replans = replanCount + 1

\* C29: one replanner call follows every executed step, and its reply
\* decides what comes next.  A reply containing "DONE:" ends the loop; the
\* trimmed text after it is the run's answer when it is not empty, and when
\* it is empty the answer is the output of the most recent past step with a
\* real result (the empty text if there is none).  Otherwise a reply that
\* parses to a non-empty step list replaces the whole remaining plan and
\* adds exactly 1 to the replan counter.  Otherwise the loop ends without
\* replanning and no further step is executed.
C29_ReplanReplyDecides ==
    [][ /\ ReplannerCalls = Len(pastSteps)
        /\ ReplanReturns =>
              \E r \in ReplanReplies :
                  LET done == \E i \in 1..Len(r) : r[i] = "DONE:"
                      a == Trim(SubSeq(r, IndexFrom(r, "DONE:", 1) + 1, Len(r)))
                      newSteps == parsePlanSteps(r)
                      last == pastSteps[Len(pastSteps)][2]
                  IN IF done
                     THEN /\ LoopEndsWith(a)
                          /\ result'.answer =
                                IF a # <<>> THEN a
                                ELSE LastReal(pastSteps, Len(pastSteps), a)
                     ELSE IF newSteps # <<>>
                     THEN PlanReplacedBy(newSteps)
                     ELSE LoopEndsWith(IF RealResult(last) THEN last ELSE NULL)
      ]_vars

\* C29 as stated: the trimmed text after "DONE:" is always the run's answer.
C29_DoneTextIsTheAnswer ==
    [][ ReplanReturns =>
          \E r \in ReplanReplies :
              LET done == \E i \in 1..Len(r) : r[i] = "DONE:"
                  a == Trim(SubSeq(r, IndexFrom(r, "DONE:", 1) + 1, Len(r)))
                  newSteps == parsePlanSteps(r)
                  last == pastSteps[Len(pastSteps)][2]
              IN IF done
                 THEN LoopEndsWith(a) /\ result'.answer = a
                 ELSE IF newSteps # <<>>
                 THEN PlanReplacedBy(newSteps)
                 ELSE LoopEndsWith(IF RealResult(last) THEN last ELSE NULL)
      ]_vars

\* All three replies were seen in one run: a replan, then a step, then a
\* DONE reply with its text as the answer.
C29_Witness ==
    /\ outcome = "result"
    /\ result.framework = "Plan-Execute"
    /\ result.replans = 1
    /\ Len(result.pastSteps) = 2
    /\ result.answer = <<"final">>
    /\ events[Len(events)] = [phase |-> "done", answer |-> <<"final">>]
    /\ ReplannerCalls = 2

\* A returned runPlanExecute result.
PEResult == outcome = "result" /\ result.framework = "Plan-Execute"

\* The answer the while loop left: that of its 'done' event, null when the
\* loop ended on its condition.
LoopAnswer ==
    IF events # <<>> /\ events[Len(events)].phase = "done"
    THEN events[Len(events)].answer ELSE NULL

\* Some past step of the result has a real result.
HasRealStep ==
    \E i \in 1..Len(result.pastSteps) : RealResult(result.pastSteps[i][2])

DoneEvents == {i \in 1..Len(events) : events[i].phase = "done"}

\* C34: runPlanExecute emits at most one 'done' progress event, it is the
\* last event of the run, and the answer it carries is the answer of the
\* returned result.
C34_DoneEventCarriesResultAnswer ==
    /\ Cardinality(DoneEvents) <= 1
    /\ \A i \in DoneEvents :
          /\ i = Len(events)
          /\ PEResult
          /\ events[i].answer = result.answer

\* The progress events of the given phase.
PhaseEvents(phase) ==
    Cardinality({i \in 1..Len(events) : events[i].phase = phase})

\* The counts of runPlanExecute agree: the executed steps are the pairs of
\* pastSteps, at most maxReplans + 1 of them and as many as the replan
\* counter or one more, and one replanner call was issued per pair.
StepCountsAgree ==
    /\ Len(pastSteps) <= maxReplans + 1
    /\ Len(pastSteps) \in {replanCount, replanCount + 1}
    /\ PhaseEvents("execute-done") = Len(pastSteps)
    /\ PhaseEvents("execute-start") \in {Len(pastSteps), Len(pastSteps) + 1}
    /\ pc \in {"awaitExecLLM", "awaitExecTool"} =>
          PhaseEvents("execute-start") = Len(pastSteps) + 1
    /\ (pc = "awaitReplan" \/ PEResult) =>
          PhaseEvents("execute-start") = Len(pastSteps)
    /\ ReplannerCalls = Len(pastSteps)
    /\ PEResult =>
          /\ result.pastSteps = pastSteps
          /\ result.replans = replanCount

\* C37: in every state of runPlanExecute the number of executed steps (the
\* length of pastSteps) is at most maxReplans + 1 and is replans or
\* replans + 1; every executed step appends exactly one pair, that of the
\* step and its output, to pastSteps; and the replanner calls issued are
\* as many as the executed steps.
C37_OnePairAndOneReplanPerStep ==
    [][ /\ StepCountsAgree'
        /\ pastSteps' # pastSteps =>
              /\ pc \in {"awaitExecLLM", "awaitExecTool"}
              /\ pc' = "awaitReplan"
              /\ Len(pastSteps') = Len(pastSteps) + 1
              /\ SubSeq(pastSteps', 1, Len(pastSteps)) = pastSteps
              /\ pastSteps'[Len(pastSteps')][1] = currentStep
              /\ events'[Len(events')] =
                    [phase |-> "execute-done", step |-> currentStep,
                     result |-> pastSteps'[Len(pastSteps')][2]]
        /\ (pc \in {"awaitExecLLM", "awaitExecTool"} /\ pc' = "awaitReplan")
              => pastSteps' # pastSteps
      ]_vars

\* The run executed maxReplans + 1 steps, replanned after each but the last
\* and returned.
C37_Witness ==
    /\ PEResult
    /\ Len(pastSteps) = maxReplans + 1
    /\ result.replans = maxReplans
    /\ ReplannerCalls = maxReplans + 1

(***************************************************************************)
(* extractAnswer  (src/src/utils/parser.js)                                *)
(***************************************************************************)
\* String.prototype.toLowerCase, token by token.
LowerText(t) == [i \in 1..Len(t) |-> toLowerCase(t[i])]

\* The tokens /[Tt]he answer is/ matches, the conclusion words of pattern 3
\* and the labels of pattern 4 (both case-insensitive).
AnswerIs == {"The answer is", "the answer is"}
ConclusionWords == {"therefore", "Therefore", "thus", "so", "So", "hence"}
AnswerLabels == {"Answer:", "answer:"}

\* The first index >= i that holds no blank (Len(t) + 1 if none).
RECURSIVE SkipBlanks(_, _)
SkipBlanks(t, i) ==
    IF i <= Len(t) /\ t[i] = " " THEN SkipBlanks(t, i + 1) ELSE i

\* \s*$ with the m flag matches from index k on: only blanks up to the end
\* of the line.
AtLineEnd(t, k) ==
    LET p == SkipBlanks(t, k) IN p > Len(t) \/ t[p] = "\n"

\* (.+?)\.?\s*$ with the m flag, the capture starting at index j: the end of
\* the shortest capture, from candidate e on.
RECURSIVE CaptureEnd(_, _)
CaptureEnd(t, e) ==
    IF e >= Len(t) THEN Len(t)
    ELSE IF AtLineEnd(t, e + 1) \/ (t[e + 1] = "." /\ AtLineEnd(t, e + 2))
         THEN e
         ELSE CaptureEnd(t, e + 1)

\* The capture that starts after the whitespace that follows index i; the
\* empty text when nothing but whitespace follows.
LineCapture(t, i) ==
    LET j == SkipWs(t, i + 1)
    IN IF j > Len(t) THEN <<>> ELSE SubSeq(t, j, CaptureEnd(t, j))

\* The first index >= i holding a token of toks that whitespace follows, or 0.
RECURSIVE FirstBeforeWs(_, _, _)
FirstBeforeWs(t, toks, i) ==
    IF i >= Len(t) THEN 0
    ELSE IF t[i] \in toks /\ t[i + 1] \in WS THEN i
    ELSE FirstBeforeWs(t, toks, i + 1)

\* The first index >= i holding a token of toks, or 0.
RECURSIVE FirstOf(_, _, _)
FirstOf(t, toks, i) ==
    IF i > Len(t) THEN 0
    ELSE IF t[i] \in toks THEN i ELSE FirstOf(t, toks, i + 1)

RemoveCommas(t) == LET NotComma(c) == c # "," IN SelectSeq(t, NotComma)

\* t without trailing whitespace and then one trailing "." : the text a
\* match of \.?\s* at its end leaves.
StripDotWs(t) ==
    LET r == TrimRight(t)
    IN IF r # <<>> /\ r[Len(r)] = "." THEN SubSeq(r, 1, Len(r) - 1) ELSE r

\* answer.replace(/[.]+$/, '')
RECURSIVE StripDots(_)
StripDots(t) ==
    IF t # <<>> /\ t[Len(t)] = "." THEN StripDots(SubSeq(t, 1, Len(t) - 1)) ELSE t

\* 1. /[Tt]he answer is\s+(.+?)\.?\s*$/m, commas removed, trimmed.
AnswerIsPattern(t) ==
    LET i == FirstBeforeWs(t, AnswerIs, 1)
    IN IF i = 0 THEN NULL ELSE Trim(RemoveCommas(LineCapture(t, i)))

\* 2. /####\s*(.+)/, trimmed.
HashPattern(t) ==
    LET i == FirstOf(t, {"####"}, 1)
        j == SkipWs(t, i + 1)
    IN IF i = 0 \/ j > Len(t) THEN NULL
       ELSE Trim(SubSeq(t, j, LineEnd(t, j) - 1))

\* 3. /(?:therefore|thus|so|hence),?\s+(?:the answer is\s+)?(.+?)\.?\s*$/im
ConclusionPattern(t) ==
    LET i == FirstOf(t, ConclusionWords, 1)
        c == IF i < Len(t) /\ t[i + 1] = "," THEN i + 1 ELSE i
        j == SkipWs(t, c + 1)
        k == IF j < Len(t) /\ t[j] \in AnswerIs /\ t[j + 1] \in WS THEN j ELSE j - 1
    IN IF i = 0 \/ c >= Len(t) \/ t[c + 1] \notin WS THEN NULL
       ELSE Trim(LineCapture(t, k))

\* 4. /(?:final\s+)?answer:\s*(.+?)\.?\s*$/im
LabelPattern(t) ==
    LET i == FirstOf(t, AnswerLabels, 1)
    IN IF i = 0 THEN NULL ELSE Trim(LineCapture(t, i))

\* The first pattern that yields a non-empty answer.
RawAnswer(t) ==
    IF Truthy(AnswerIsPattern(t)) THEN AnswerIsPattern(t)
    ELSE IF Truthy(HashPattern(t)) THEN HashPattern(t)
    ELSE IF Truthy(ConclusionPattern(t)) THEN ConclusionPattern(t)
    ELSE IF Truthy(LabelPattern(t)) THEN LabelPattern(t)
    ELSE NULL

\* answer.replace(/\.?\s*[Tt]he answer is\s+.*$/, '').trim()
StripRepeat(t) ==
    LET i == FirstBeforeWs(t, AnswerIs, 1)
    IN IF i = 0 THEN t ELSE Trim(StripDotWs(SubSeq(t, 1, i - 1)))

extractAnswer(text) ==
    IF ~Truthy(text) \/ ~Truthy(RawAnswer(text)) THEN NULL
    ELSE LET answer == Trim(StripDots(StripRepeat(RawAnswer(text))))
         IN IF answer = <<>> THEN NULL ELSE answer

(***************************************************************************)
(* Majority vote of runCoT  (src/src/frameworks/llm.js, module cot)        *)
(*                                                                         *)
(* A JavaScript object is a sequence of [k, v] records in the order        *)
(* Object.keys lists them: integer-like keys first, in ascending order,    *)
(* then the other keys in insertion order.                                 *)
(***************************************************************************)
\* The one-token texts that are integer-like keys, and their values.
IntegerTokens == {"1", "2", "3", "4", "7", "9", "42", "89"}
NumVal(tok) ==
    CASE tok = "1" -> 1 [] tok = "2" -> 2 [] tok = "3" -> 3 [] tok = "4" -> 4
      [] tok = "7" -> 7 [] tok = "9" -> 9 [] tok = "42" -> 42
      [] tok = "89" -> 89 [] OTHER -> 0

IntegerLike(k) == Len(k) = 1 /\ k[1] \in IntegerTokens

ObjHas(o, k) == \E i \in 1..Len(o) : o[i].k = k

\* o[k], or the default d when o has no key k.
ObjGet(o, k, d) ==
    IF ObjHas(o, k) THEN o[CHOOSE i \in 1..Len(o) : o[i].k = k].v ELSE d

\* The number of keys of o that Object.keys lists before a new key k.
KeysBefore(o, k) ==
    IF IntegerLike(k)
    THEN Cardinality({i \in 1..Len(o) :
                        IntegerLike(o[i].k) /\ NumVal(o[i].k[1]) < NumVal(k[1])})
    ELSE Len(o)

\* o[k] = v
ObjSet(o, k, v) ==
    IF ObjHas(o, k)
    THEN [i \in 1..Len(o) |-> IF o[i].k = k THEN [k |-> k, v |-> v] ELSE o[i]]
    ELSE SubSeq(o, 1, KeysBefore(o, k)) \o <<[k |-> k, v |-> v]>>
         \o SubSeq(o, KeysBefore(o, k) + 1, Len(o))

\* The characters /^[\s.,;:!?"'()]+|[\s.,;:!?"'()]+$/g strips.
Punctuation == WS \cup {".", ",", ";", ":", "!", "?", "'", "(", ")"}

RECURSIVE StripLeft(_)
StripLeft(t) ==
    IF t # <<>> /\ Head(t) \in Punctuation THEN StripLeft(Tail(t)) ELSE t

RECURSIVE StripRight(_)
StripRight(t) ==
    IF t # <<>> /\ t[Len(t)] \in Punctuation
    THEN StripRight(SubSeq(t, 1, Len(t) - 1)) ELSE t

\* s.replace(/\s+/g, ' ')
RECURSIVE CollapseWs(_)
CollapseWs(t) ==
    IF t = <<>> THEN <<>>
    ELSE IF Head(t) \in WS
         THEN <<" ">> \o CollapseWs(TrimLeft(t))
         ELSE <<Head(t)>> \o CollapseWs(Tail(t))

\* s.replace(/\.?\s*the answer is\b.*$/gi, '')
CutAnswerIs(t) ==
    LET i == FirstOf(t, AnswerIs, 1)
    IN IF i = 0 THEN t ELSE StripDotWs(SubSeq(t, 1, i - 1))

\* s.replace(/^(the|a|an)\s+/i, '')
DropArticle(t) ==
    IF Len(t) >= 2 /\ t[1] \in {"the", "a", "an"} /\ t[2] \in WS
    THEN TrimLeft(Tail(t)) ELSE t

basicNormalize(raw) ==
    Trim(CollapseWs(StripRight(StripLeft(
        DropArticle(CutAnswerIs(LowerText(Trim(raw))))))))

\* The length of a text in characters.
OneCharTokens == Punctuation \cup {"1", "2", "3", "4", "7", "9", "a"}
RECURSIVE Length(_)
Length(t) ==
    IF t = <<>> THEN 0
    ELSE (IF Head(t) \in OneCharTokens THEN 1
          ELSE IF Head(t) \in {"42", "89", "an"} THEN 2
          ELSE 5)
         + Length(Tail(t))

\* The text `longer` holds the text `shorter` between word boundaries.
Holds(longer, shorter) ==
    \E i \in 1..(Len(longer) - Len(shorter) + 1) :
        SubSeq(longer, i, i + Len(shorter) - 1) = shorter

\* A similarity that holds of any two answers.
areSimilarAlways(a, b) == TRUE

areSimilar(a, b) ==
    IF a = b THEN TRUE
    ELSE IF Length(a) < 2 \/ Length(b) < 2 THEN FALSE
    ELSE IF Length(a) <= Length(b) THEN Holds(b, a) ELSE Holds(a, b)

\* validAnswers.map(a => ({ original, normalized }))
VoteEntries(as) ==
    LET Valid(a) == a # NULL
        validAnswers == SelectSeq(as, Valid)
    IN [i \in 1..Len(validAnswers) |->
          [original |-> LowerText(Trim(validAnswers[i])),
           normalized |-> basicNormalize(validAnswers[i])]]

NoGroup == [count |-> 0, originals |-> <<>>]

\* groups[key].count++; groups[key].originals[original]++
CountInto(groups, key, original) ==
    LET g == ObjGet(groups, key, NoGroup)
    IN ObjSet(groups, key,
              [count |-> g.count + 1,
               originals |-> ObjSet(g.originals, original,
                                    ObjGet(g.originals, original, 0) + 1)])

\* The key of an entry whatever its normalized form is.
GroupKeyNormalized(e) == e.normalized

\* const key = normalized || original
GroupKey(e) == IF e.normalized # <<>> THEN e.normalized ELSE e.original

\* Step 2: the groups by normalized form of the first n entries.
RECURSIVE NormGroups(_, _)
NormGroups(entries, n) ==
    IF n = 0 THEN <<>>
    ELSE CountInto(NormGroups(entries, n - 1),
                   GroupKey(entries[n]),
                   entries[n].original)

\* Object.keys(groups).sort by descending count: the sort is stable.
RECURSIVE SortedKeys(_, _)
SortedKeys(groups, c) ==
    IF c = 0 THEN <<>>
    ELSE LET AtCount(g) == g.v.count = c
             at == SelectSeq(groups, AtCount)
         IN [i \in 1..Len(at) |-> at[i].k] \o SortedKeys(groups, c - 1)

\* originals[orig] += cnt for every entry of `from`, from index i on.
RECURSIVE AddOriginals(_, _, _)
AddOriginals(into, from, i) ==
    IF i > Len(from) THEN into
    ELSE AddOriginals(ObjSet(into, from[i].k,
                             ObjGet(into, from[i].k, 0) + from[i].v),
                      from, i + 1)

\* The first key of the object `into` that is similar to key, or NULL.
MergeTarget(into, key) ==
    LET similar == {i \in 1..Len(into) : areSimilar(key, into[i].k)}
    IN IF similar = {} THEN NULL
       ELSE into[CHOOSE i \in similar : \A j \in similar : i <= j].k

\* Step 3: the groups merged by similarity, over the first n sorted keys.
RECURSIVE Merged(_, _, _)
Merged(groups, keys, n) ==
    IF n = 0 THEN <<>>
    ELSE LET m == Merged(groups, keys, n - 1)
             g == ObjGet(groups, keys[n], NoGroup)
             into == MergeTarget(m, keys[n])
         IN IF into # NULL
            THEN ObjSet(m, into,
                        [count |-> ObjGet(m, into, NoGroup).count + g.count,
                         originals |-> AddOriginals(
                             ObjGet(m, into, NoGroup).originals, g.originals, 1)])
            ELSE ObjSet(m, keys[n], g)

\* The lower-case property names a plain object {} inherits from
\* Object.prototype: normGroups[key] is truthy for them before any insert.
InheritedKeys == {<<"constructor">>, <<"__proto__">>}

\* Step 2 on an inherited key: the group is not initialised, so
\* normGroups[key].originals is undefined and indexing it is a TypeError.
GroupsThrow(as) ==
    \E i \in 1..Len(VoteEntries(as)) :
        GroupKey(VoteEntries(as)[i]) \in InheritedKeys

\* The merged groups smartMajorityVote holds before step 4.
MergedGroups(as) ==
    LET entries == VoteEntries(as)
        groups == NormGroups(entries, Len(entries))
        keys == SortedKeys(groups, Len(entries))
    IN Merged(groups, keys, Len(keys))

\* The display label of a group: the first original with the highest count.
DisplayKey(originals) ==
    originals[CHOOSE i \in 1..Len(originals) :
                 /\ \A j \in 1..Len(originals) : originals[j].v <= originals[i].v
                 /\ \A j \in 1..(i - 1) : originals[j].v < originals[i].v].k

RECURSIVE Distribution(_, _)
Distribution(groups, n) ==
    IF n = 0 THEN <<>>
    ELSE ObjSet(Distribution(groups, n - 1),
                DisplayKey(groups[n].v.originals), groups[n].v.count)

NoVote == [answer |-> NULL, count |-> 0, distribution |-> <<>>, extraUsage |-> FALSE]

buildVoteResult(groups, extraUsage) ==
    IF groups = <<>> THEN NoVote
    ELSE LET best == CHOOSE i \in 1..Len(groups) :
                        /\ \A j \in 1..Len(groups) :
                              groups[j].v.count <= groups[i].v.count
                        /\ \A j \in 1..(i - 1) :
                              groups[j].v.count < groups[i].v.count
         IN [answer |-> DisplayKey(groups[best].v.originals),
             count |-> groups[best].v.count,
             distribution |-> Distribution(groups, Len(groups)),
             extraUsage |-> extraUsage]

(***************************************************************************)
(* classifyQuestionHeuristic  (src/unnamed/part_006)                       *)
(***************************************************************************)
ImperativeVerbs ==
    {"plan", "design", "create", "write", "draft", "compose", "build",
     "develop", "outline", "suggest", "recommend", "describe", "explain",
     "compare", "analyze", "evaluate", "propose", "brainstorm", "generate",
     "list", "organize", "prepare", "arrange", "schedule", "help", "give",
     "tell", "show", "make", "provide"}
FactNouns ==
    {"number", "count", "name", "date", "year", "capital", "population",
     "answer", "result", "value", "price"}
OpenKeywords ==
    {"plan", "itinerary", "roadmap", "strategy", "strategies", "guide",
     "tutorial", "advice", "tips", "ideas", "suggestions", "recommendations",
     "advantages", "disadvantages", "opportunities", "checklist", "schedule",
     "agenda", "recipe", "workout", "routine", "curriculum", "syllabus"}
FactualOpeners == {"what", "who", "when", "where"}
FactualVerbs == {"is", "was", "did"}
Quantities ==
    {"many", "much", "old", "tall", "long", "far", "fast", "heavy", "deep", "wide"}
YesNoOpeners == {"did", "does", "is", "was", "are", "were"}
Operators == {"+", "-", "*", "/", "^"}

\* q holds the words w1 and w2, in this order, with one blank between, at i.
WordPairAt(q, i, w1, w2) ==
    /\ i + 2 <= Len(q)
    /\ q[i] \in w1 /\ q[i + 1] = " " /\ q[i + 2] \in w2

\* /\d+\s*[+\-*/^]\s*\d+/ matches at index i.
MathAt(q, i) ==
    /\ q[i] \in IntegerTokens
    /\ LET o == SkipWs(q, i + 1)
       IN /\ o <= Len(q) /\ q[o] \in Operators
          /\ SkipWs(q, o + 1) <= Len(q)
          /\ q[SkipWs(q, o + 1)] \in IntegerTokens

\* A heuristic that finds every question ambiguous.
classifyQuestionUndecided(text) == "none"

\* The classification by regular expressions alone; "none" for null.
classifyQuestionHeuristic(text) ==
    LET q == LowerText(Trim(text))
        I == 1..Len(q)
    IN IF q # <<>> /\ q[1] \in ImperativeVerbs
       THEN IF /\ q[1] \in {"give", "tell", "show", "provide"}
               /\ \E i \in I : i > 1 /\ q[i] \in FactNouns
            THEN "factual" ELSE "open-ended"
       ELSE IF \E i \in I : q[i] \in OpenKeywords THEN "open-ended"
       ELSE IF \E i \in I :
                 WordPairAt(q, i, {"how"},
                            {"can", "do", "should", "would", "could", "to"})
            THEN "open-ended"
       ELSE IF \E i \in I :
                 /\ WordPairAt(q, i, {"what"}, {"are"})
                 /\ \/ WordPairAt(q, i + 2, {"are"}, {"best", "top", "good"})
                    \/ /\ WordPairAt(q, i + 2, {"are"}, {"the", "some"})
                       /\ WordPairAt(q, i + 4, {"the", "some"}, {"best", "top", "good"})
            THEN "open-ended"
       ELSE IF \E i \in I :
                 /\ q[i] \in {"under", "within"}
                 /\ \/ WordPairAt(q, i, {"under", "within"}, {"budget"})
                    \/ /\ i + 4 <= Len(q) /\ q[i + 1] = " " /\ IsWord(q[i + 2])
                       /\ q[i + 3] = " " /\ q[i + 4] = "budget"
            THEN "open-ended"
       ELSE IF WordPairAt(q, 1, FactualOpeners, FactualVerbs) THEN "factual"
       ELSE IF WordPairAt(q, 1, {"how"}, Quantities) THEN "factual"
       ELSE IF \E i \in I : MathAt(q, i) THEN "factual"
       ELSE IF q # <<>> /\ q[1] \in {"calculate", "compute", "solve"} THEN "factual"
       ELSE IF q # <<>> /\ q[1] \in YesNoOpeners THEN "factual"
       ELSE "none"

(***************************************************************************)
(* runCoT  (src/src/frameworks/llm.js, module cot)                         *)
(***************************************************************************)
\* The questions asked, and the replies the scripted LLM may give to a
\* sample, to the classifier, to the canonicalization and to the synthesis.
Questions ==
    { <<"What", " ", "is", " ", "the", " ", "capital", " ", "of", " ", "France">>,
      <<"plan", " ", "a", " ", "trip">>,
      <<"capital", " ", "of", " ", "France">> }
SampleReplies ==
    { <<"think", ".", " ", "The answer is", " ", "Paris", ".">>,
      <<"The answer is", " ", "42">>,
      <<"The answer is", " ", "9">>,
      <<"The answer is", " ", "89">>,
      <<"The answer is", " ", "?">>,
      <<"The answer is", " ", "'", "?", "'">>,
      <<"The answer is", " ", "constructor">>,
      <<"no", "conclusion">> }
ClassifierReplies == { <<"factual">>, <<" ", "Open-ended", "\n">> }
CanonReplies ==
    { <<"1", " ", "->", " ", "Paris", "\n", "2", "->", "Paris">>,
      <<"3", "->", "x", "\n", "sorry">> }
SynthesisReplies == { <<"synthesis">> }

\* [...new Set(entries.map(e => e.original))]
RECURSIVE UniqueOriginals(_, _)
UniqueOriginals(entries, n) ==
    IF n = 0 THEN <<>>
    ELSE LET u == UniqueOriginals(entries, n - 1)
         IN IF \E i \in 1..Len(u) : u[i] = entries[n].original
            THEN u ELSE Append(u, entries[n].original)

\* /(\d+)\s*->\s*(.+)/ on one line: the first index where it matches, or 0.
RECURSIVE ArrowAt(_, _)
ArrowAt(line, i) ==
    IF i > Len(line) THEN 0
    ELSE IF /\ line[i] \in IntegerTokens
            /\ SkipWs(line, i + 1) < Len(line)
            /\ line[SkipWs(line, i + 1)] = "->"
         THEN i
         ELSE ArrowAt(line, i + 1)

\* The mapping canonicalizeWithLLM builds from the lines of the reply.
RECURSIVE Mapping(_, _, _)
Mapping(lines, uniqueAnswers, n) ==
    IF n = 0 THEN <<>>
    ELSE LET line == lines[n]
             i == ArrowAt(line, 1)
             idx == NumVal(line[i]) - 1
             a == SkipWs(line, i + 1)
         IN IF i # 0 /\ idx >= 0 /\ idx < Len(uniqueAnswers)
            THEN ObjSet(Mapping(lines, uniqueAnswers, n - 1),
                        uniqueAnswers[idx + 1],
                        LowerText(Trim(SubSeq(line, a + 1, Len(line)))))
            ELSE Mapping(lines, uniqueAnswers, n - 1)

\* The groups rebuilt from the canonical forms, over the first n entries.
RECURSIVE LlmGroups(_, _, _)
LlmGroups(entries, mapping, n) ==
    IF n = 0 THEN <<>>
    ELSE CountInto(LlmGroups(entries, mapping, n - 1),
                   IF Truthy(ObjGet(mapping, entries[n].original, NULL))
                   THEN ObjGet(mapping, entries[n].original, NULL)
                   ELSE entries[n].original,
                   entries[n].original)

\* The vote after a canonicalization reply.
CanonicalVote(as, content) ==
    LET entries == VoteEntries(as)
        unique == UniqueOriginals(entries, Len(entries))
        lines == Lines(content, 1)
    IN buildVoteResult(
           LlmGroups(entries, Mapping(lines, unique, Len(lines)), Len(entries)),
           TRUE)

\* Every answer counted as valid.
ValidCountAll(as) == Len(as)

\* The finalAnswer of a factual run none of whose paths gave an answer (the
\* dash of the source text, U+2014, is written -- here).
ExtractionFailed == <<"[Extraction failed -- see reasoning paths]">>

ValidCount(as) == Cardinality({i \in 1..Len(as) : as[i] # NULL})

\* llmCalls of the factual result.
CoTCalls(vote, cu) ==
    nSamples + (IF vote.extraUsage THEN 1 ELSE 0) + (IF cu THEN 1 ELSE 0)

\* The result of the factual branch, returned after the vote.
CoTReturnFactual(c0, ps, as, vote, cu, us) ==
    LET final == IF ValidCount(as) > 0 THEN vote.answer
                 ELSE ExtractionFailed
    IN /\ result' = [framework |-> "CoT",
                     questionType |-> "factual",
                     paths |-> ps,
                     answers |-> as,
                     voteCounts |-> vote.distribution,
                     finalAnswer |-> final,
                     answer |-> final,
                     confidence |-> [votes |-> IF ValidCount(as) > 0
                                               THEN vote.count ELSE 0,
                                     of |-> nSamples],
                     extractionFailures |-> Len(as) - ValidCount(as),
                     usage |-> us + (IF vote.extraUsage THEN 1 ELSE 0),
                     llmCalls |-> CoTCalls(vote, cu)]
       /\ usages' = us + (IF vote.extraUsage THEN 1 ELSE 0)
       /\ outcome' = "result"
       /\ pc' = "done"
       /\ call' = c0
       /\ UNCHANGED <<callLog, messages>>

\* runCoT from the classification on: the synthesis call of the open-ended
\* branch; or the factual branch up to the canonicalization call, or to its
\* result when no such call is made.
CoTBranch(c0, ps, type, cu, us) ==
    /\ questionType' = type
    /\ classUsage' = cu
    /\ IF type = "open-ended"
       THEN /\ answers' = <<>>
            /\ merged' = <<>>
            /\ call' = [c0 EXCEPT ![1] = Invoke]
            /\ callLog' = Append(callLog, "synthesis")
            /\ messages' = <<UserMessage(<<"synthesize">>)>>
            /\ usages' = us
            /\ pc' = "awaitSynth"
            /\ UNCHANGED <<outcome, result>>
       ELSE /\ answers' = [i \in 1..Len(ps) |-> extractAnswer(ps[i])]
            /\ merged' = IF GroupsThrow(answers') THEN <<>>
                          ELSE MergedGroups(answers')
            /\ IF GroupsThrow(answers')
               THEN /\ outcome' = "TypeError"
                    /\ pc' = "done"
                    /\ call' = c0
                    /\ usages' = us
                    /\ UNCHANGED <<callLog, messages, result>>
               ELSE IF Len(merged') > 1 /\ apiKey
               THEN /\ call' = [c0 EXCEPT ![1] = Invoke]
                    /\ callLog' = Append(callLog, "canonicalize")
                    /\ messages' = <<UserMessage(<<"canonicalize">>)>>
                    /\ usages' = us
                    /\ pc' = "awaitCanon"
                    /\ UNCHANGED <<outcome, result>>
               ELSE CoTReturnFactual(c0, ps, answers',
                                     buildVoteResult(merged', FALSE), cu, us)

\* classifyQuestionSmart: the heuristic, then the import of the LLM client
\* for an ambiguous question when there is a credential.
CoTClassify(c0, ps, us) ==
    IF classifyQuestionHeuristic(question) # "none"
    THEN CoTBranch(c0, ps, classifyQuestionHeuristic(question), FALSE, us)
    ELSE IF apiKey
    THEN /\ pc' = "awaitImport"
         /\ call' = c0
         /\ usages' = us
         /\ UNCHANGED <<callLog, messages, outcome, result, questionType,
                        classUsage, answers, merged>>
    ELSE CoTBranch(c0, ps, "factual", FALSE, us)

InitCoT ==
    /\ InitCommon
    /\ frameworks = {}
    /\ question \in Questions
    /\ apiKey \in BOOLEAN
    /\ pc = "start"

\* runCoT up to Promise.all: every sample's callLLM is invoked.
CoTStart ==
    /\ pc = "start"
    /\ call' = [s \in Slots |-> Invoke]
    /\ callLog' = [s \in Slots |-> "sample"]
    /\ messages' = <<SystemMessage, UserMessage(<<"prompt">> \o question)>>
    /\ paths' = [s \in Slots |-> NULL]
    /\ pc' = "awaitSamples"
    /\ UNCHANGED <<aborted, outcome, result, apiKey, runnerVars, usages, events, toolRun,
                   turn, trajectory, action, rewooVars, peVars, question,
                   questionType, classUsage, answers, merged>>

\* Promise.race in place of Promise.all: the first sample resolves it.
PromiseRace(ps, s) == TRUE

\* Promise.all(promises) resolves when sample s is fulfilled and every other
\* sample has been fulfilled before it.
PromiseAll(ps, s) == \A r \in Slots \ {s} : ps[r] # NULL

\* The callLLM of sample s returned: onProgress fires; when it is the last
\* sample, Promise.all resolves and the run goes on to the classification.
CoTSample(s) ==
    /\ pc = "awaitSamples"
    /\ call[s].pc = "returned"
    /\ \E content \in SampleReplies :
         /\ paths' = [paths EXCEPT ![s] = content]
         /\ events' = Append(events, [index |-> s - 1, path |-> content])
         /\ IF PromiseAll(paths, s)
            THEN CoTClassify([call EXCEPT ![s] = IdleCall], paths', nSamples)
            ELSE /\ call' = [call EXCEPT ![s] = IdleCall]
                 /\ UNCHANGED <<callLog, messages, pc, outcome, result, usages,
                                questionType, classUsage, answers, merged>>
    /\ UNCHANGED <<aborted, apiKey, runnerVars, toolRun, turn, trajectory, action,
                   rewooVars, peVars, question>>

\* The callLLM of sample s threw: Promise.all rejects and runCoT throws; the
\* other samples stay in flight.
CoTSampleThrow(s) ==
    /\ pc = "awaitSamples"
    /\ call[s].pc = "thrown"
    /\ outcome' = IF call[s].error = "AbortError" THEN "AbortError" ELSE "Error"
    /\ pc' = "done"
    /\ call' = [call EXCEPT ![s] = IdleCall]
    /\ UNCHANGED <<aborted, callLog, result, engineVars>>

\* A sample settles after runCoT has thrown: its onProgress still fires.
CoTLateSample(s) ==
    /\ pc = "done"
    /\ Settled(call[s])
    /\ IF call[s].pc = "returned"
       THEN \E content \in SampleReplies :
               events' = Append(events, [index |-> s - 1, path |-> content])
       ELSE UNCHANGED events
    /\ call' = [call EXCEPT ![s] = IdleCall]
    /\ UNCHANGED <<aborted, runVars, apiKey, runnerVars, usages, toolRun, reactVars,
                   rewooVars, peVars, cotVars>>

\* The dynamic import of classifyQuestionWithLLM resolved: the classifier's
\* callLLM is invoked.
CoTImported ==
    /\ pc = "awaitImport"
    /\ CallLLM("classifier", <<UserMessage(<<"classify">> \o question)>>)
    /\ pc' = "awaitClassify"
    /\ UNCHANGED <<aborted, outcome, result, apiKey, runnerVars, usages, events, toolRun,
                   turn, trajectory, action, rewooVars, peVars, cotVars>>

\* The classifier's callLLM returned.
CoTClassified ==
    /\ pc = "awaitClassify"
    /\ call[1].pc = "returned"
    /\ \E content \in ClassifierReplies :
         CoTBranch([call EXCEPT ![1] = IdleCall], paths,
                   IF \E i \in 1..Len(content) :
                         toLowerCase(content[i]) \in {"open", "open-ended"}
                   THEN "open-ended" ELSE "factual",
                   TRUE, usages + 1)
    /\ UNCHANGED <<aborted, apiKey, runnerVars, events, toolRun, turn, trajectory, action,
                   rewooVars, peVars, question, paths>>

\* The classifier's callLLM threw: the catch of classifyQuestionSmart
\* defaults to factual, whatever the error.
CoTClassifyFailed ==
    /\ pc = "awaitClassify"
    /\ call[1].pc = "thrown"
    /\ CoTBranch([call EXCEPT ![1] = IdleCall], paths, "factual", FALSE, usages)
    /\ UNCHANGED <<aborted, apiKey, runnerVars, events, toolRun, turn, trajectory, action,
                   rewooVars, peVars, question, paths>>

\* The callLLM of synthesizePaths returned: the open-ended result.
CoTSynthesized ==
    /\ pc = "awaitSynth"
    /\ call[1].pc = "returned"
    /\ \E content \in SynthesisReplies :
         result' = [framework |-> "CoT",
                    questionType |-> "open-ended",
                    paths |-> paths,
                    answers |-> [i \in 1..Len(paths) |-> NULL],
                    synthesizedAnswer |-> content,
                    finalAnswer |-> content,
                    answer |-> content,
                    confidence |-> NULL,
                    extractionFailures |-> 0,
                    usage |-> usages + 1,
                    llmCalls |-> nSamples + 1 + (IF classUsage THEN 1 ELSE 0)]
    /\ usages' = usages + 1
    /\ outcome' = "result"
    /\ pc' = "done"
    /\ call' = [call EXCEPT ![1] = IdleCall]
    /\ UNCHANGED <<aborted, callLog, apiKey, runnerVars, events, toolRun, reactVars,
                   rewooVars, peVars, cotVars>>

\* The callLLM of synthesizePaths threw: nothing catches it.
CoTThrow ==
    /\ pc = "awaitSynth"
    /\ call[1].pc = "thrown"
    /\ outcome' = IF call[1].error = "AbortError" THEN "AbortError" ELSE "Error"
    /\ pc' = "done"
    /\ call' = [call EXCEPT ![1] = IdleCall]
    /\ UNCHANGED <<aborted, callLog, result, engineVars>>

\* The callLLM of canonicalizeWithLLM returned: the vote over the groups
\* rebuilt from the canonical forms.
CoTCanonicalized ==
    /\ pc = "awaitCanon"
    /\ call[1].pc = "returned"
    /\ \E content \in CanonReplies :
         CoTReturnFactual([call EXCEPT ![1] = IdleCall], paths, answers,
                          CanonicalVote(answers, content), classUsage, usages)
    /\ UNCHANGED <<aborted, apiKey, runnerVars, events, toolRun, turn, trajectory, action,
                   rewooVars, peVars, cotVars>>

\* The callLLM of canonicalizeWithLLM threw and the error leaves the vote.
CoTCanonFailedRaises ==
    /\ pc = "awaitCanon"
    /\ call[1].pc = "thrown"
    /\ outcome' = "Error"
    /\ pc' = "done"
    /\ call' = [call EXCEPT ![1] = IdleCall]
    /\ UNCHANGED <<aborted, callLog, result, engineVars>>

\* The callLLM of canonicalizeWithLLM threw: the catch of smartMajorityVote
\* falls back to the merged groups, whatever the error.
CoTCanonFailed ==
    /\ pc = "awaitCanon"
    /\ call[1].pc = "thrown"
    /\ CoTReturnFactual([call EXCEPT ![1] = IdleCall], paths, answers,
                        buildVoteResult(merged, FALSE), classUsage, usages)
    /\ UNCHANGED <<aborted, apiKey, runnerVars, events, toolRun, turn, trajectory, action,
                   rewooVars, peVars, cotVars>>

NextCoT ==
    \/ Abort \/ LLMStep
    \/ CoTStart
    \/ \E s \in Slots : CoTSample(s) \/ CoTSampleThrow(s) \/ CoTLateSample(s)
    \/ CoTImported \/ CoTClassified \/ CoTClassifyFailed
    \/ CoTSynthesized \/ CoTThrow \/ CoTCanonicalized \/ CoTCanonFailed

SpecCoT == InitCoT /\ [][NextCoT]_vars

(***************************************************************************)
(* FrameworkRunner  (src/unnamed/part_003): the orchestrator that launches *)
(* the selected engines concurrently under one AbortController.  An engine *)
(* is its promise: it is fulfilled with a result object or rejected with   *)
(* an error, and the cancellation error only once the signal is aborted.   *)
(***************************************************************************)
\* REGISTRY: the engine ids and their display names.
REGISTRY ==
    ("cot" :> "CoT") @@ ("react" :> "ReAct") @@ ("rewoo" :> "ReWOO")
    @@ ("plan-execute" :> "Plan-Execute")

\* The ids config.frameworks may hold: those of REGISTRY and a foreign one.
FrameworkIds == DOMAIN REGISTRY \cup {"tot"}

\* frameworks.filter((fw) => REGISTRY[fw])
Launched(fws) == {fw \in fws : fw \in DOMAIN REGISTRY}

\* The DOMException callLLM throws on cancellation, and the other errors a
\* run may throw: a provider message, a failed fetch of a tool, and a
\* provider message that speaks of an aborted request.
AbortError ==
    [name |-> "AbortError", message |-> <<"The operation was", "aborted", ".">>]
FatalErrors ==
    { [name |-> "Error", message |-> <<"LLM API error: 400">>],
      [name |-> "TypeError", message |-> <<"Failed to fetch">>],
      [name |-> "Error", message |-> <<"upstream request", "aborted">>] }

Pend == [state |-> "pending"]
Fulfilled(fw) ==
    [state |-> "fulfilled", value |-> [framework |-> REGISTRY[fw]]]
RejectedWith(e) == [state |-> "rejected", reason |-> e]

\* The ways the promise of engine fw may settle.
EngineOutcomes(fw) ==
    {Fulfilled(fw)} \cup {RejectedWith(e) : e \in FatalErrors}
    \cup (IF aborted THEN {RejectedWith(AbortError)} ELSE {})

\* String.prototype.includes, for a one-token needle.
includes(message, tok) == \E i \in 1..Len(message) : message[i] = tok

\* isAbort with the test of the name alone.
isAbortByName(e) == e.name = "AbortError"

isAbort(e) == e.name = "AbortError" \/ includes(e.message, "aborted")

StoppedByUser(fw) ==
    [error |-> <<"Stopped by user">>, stopped |-> TRUE,
     framework |-> REGISTRY[fw]]
ErrorResult(fw, e) == [error |-> e.message, framework |-> REGISTRY[fw]]

\* { ...p, [fw]: r }
WithResult(p, fw, r) == (fw :> r) @@ p

\* The .then and .catch handlers of the promise of fw, settled as o.
Recorded(p, fw, o) ==
    IF cancelled THEN p
    ELSE IF o.state = "fulfilled" THEN WithResult(p, fw, o.value)
    ELSE IF isAbort(o.reason)
    THEN WithResult(p, fw, IF fw \in DOMAIN p THEN p[fw] ELSE StoppedByUser(fw))
    ELSE WithResult(p, fw, ErrorResult(fw, o.reason))

InitRunner ==
    /\ InitCommon
    /\ frameworks \in SUBSET FrameworkIds
    /\ question = <<"question">>
    /\ apiKey = TRUE
    /\ pc = "mount"

\* The effect that launches the engines: run() up to await Promise.all,
\* which resolves at once when nothing was launched.
RunnerLaunch ==
    /\ pc = "mount"
    /\ promises' = [fw \in Launched(frameworks) |-> Pend]
    /\ pc' = "launched"
    /\ running' = (Launched(frameworks) # {})
    /\ UNCHANGED <<aborted, call, callLog, outcome, result, apiKey,
                   frameworks, results, cancelled, stopped, usages, events,
                   toolRun, reactVars, rewooVars, peVars, cotVars>>

\* The promise of engine fw settles: its handler records the outcome, and
\* when it is the last one Promise.all resolves and run() ends.
RunnerSettle(fw) ==
    /\ pc = "launched"
    /\ fw \in DOMAIN promises
    /\ promises[fw] = Pend
    /\ \E o \in EngineOutcomes(fw) :
         /\ promises' = [promises EXCEPT ![fw] = o]
         /\ results' = Recorded(results, fw, o)
    /\ running' = IF /\ \A g \in DOMAIN promises \ {fw} : promises[g] # Pend
                     /\ ~cancelled
                  THEN FALSE ELSE running
    /\ UNCHANGED <<aborted, call, runVars, apiKey, frameworks, cancelled,
                   stopped, usages, events, toolRun, reactVars, rewooVars,
                   peVars, cotVars>>

\* stopRef.current(): the user stops the run.
RunnerStop ==
    /\ pc = "launched"
    /\ ~cancelled
    /\ aborted' = TRUE
    /\ stopped' = TRUE
    /\ running' = FALSE
    /\ UNCHANGED <<call, runVars, apiKey, frameworks, promises, results,
                   cancelled, usages, events, toolRun, reactVars, rewooVars,
                   peVars, cotVars>>

\* The cleanup of the effect, when the component unmounts.
RunnerUnmount ==
    /\ pc = "launched"
    /\ ~cancelled
    /\ cancelled' = TRUE
    /\ aborted' = TRUE
    /\ UNCHANGED <<call, runVars, apiKey, frameworks, promises, results,
                   running, stopped, usages, events, toolRun, reactVars,
                   rewooVars, peVars, cotVars>>

NextRunner ==
    \/ RunnerLaunch
    \/ \E fw \in DOMAIN REGISTRY : RunnerSettle(fw)
    \/ RunnerStop \/ RunnerUnmount

SpecRunner == InitRunner /\ [][NextRunner]_vars

\* C13: while the runner is mounted, every launched engine that settles has
\* a result object recorded for it and for no other engine: its own result
\* when it succeeded, the 'Stopped by user' object when its error is named
\* AbortError or its message contains "aborted", and the {error, framework}
\* object with the error's message otherwise.  After the cleanup of the
\* effect nothing more is recorded.  The settling of one engine changes
\* neither the promise nor the recorded result of another.
C13_EachEngineRecordedOnItsOwn ==
    [][ /\ \A fw \in DOMAIN promises' :
            /\ (promises'[fw] # Pend /\ ~cancelled') => fw \in DOMAIN results'
            /\ fw \in DOMAIN results' =>
                 /\ promises'[fw] # Pend
                 /\ results'[fw] =
                      IF promises'[fw].state = "fulfilled"
                      THEN promises'[fw].value
                      ELSE IF \/ promises'[fw].reason.name = "AbortError"
                              \/ \E i \in 1..Len(promises'[fw].reason.message) :
                                    promises'[fw].reason.message[i] = "aborted"
                      THEN [error |-> <<"Stopped by user">>, stopped |-> TRUE,
                            framework |-> REGISTRY[fw]]
                      ELSE [error |-> promises'[fw].reason.message,
                            framework |-> REGISTRY[fw]]
        /\ DOMAIN results' \subseteq DOMAIN promises'
        /\ cancelled => results' = results
        /\ \A fw \in DOMAIN promises :
             promises'[fw] # promises[fw] =>
                /\ aborted' = aborted
                /\ \A g \in DOMAIN promises \ {fw} :
                     /\ promises'[g] = promises[g]
                     /\ (g \in DOMAIN results' <=> g \in DOMAIN results)
                     /\ g \in DOMAIN results => results'[g] = results[g]
      ]_vars

\* C13 as stated: every launched engine that has settled has a result
\* recorded: its own result, the {error, framework} object for an error
\* other than the cancellation, the 'Stopped by user' object for the
\* cancellation.
C13_EverySettledEngineRecorded ==
    \A fw \in DOMAIN promises :
        promises[fw] # Pend =>
            /\ fw \in DOMAIN results
            /\ results[fw] =
                 IF promises[fw].state = "fulfilled" THEN promises[fw].value
                 ELSE IF promises[fw].reason.name = "AbortError"
                 THEN [error |-> <<"Stopped by user">>, stopped |-> TRUE,
                       framework |-> REGISTRY[fw]]
                 ELSE [error |-> promises[fw].reason.message,
                       framework |-> REGISTRY[fw]]

\* Three engines settled in three ways, each recorded, the runner mounted.
C13_Witness ==
    /\ ~cancelled
    /\ ~running
    /\ \E f, g, h \in DOMAIN results :
         /\ promises[f].state = "fulfilled" /\ results[f] = promises[f].value
         /\ promises[g].state = "rejected"
         /\ promises[g].reason.name = "AbortError"
         /\ results[g].error = <<"Stopped by user">>
         /\ promises[h].state = "rejected"
         /\ promises[h].reason.name = "TypeError"
         /\ results[h].error = <<"Failed to fetch">>

(***************************************************************************)
(* Properties of the engines                                               *)
(***************************************************************************)
\* C1: once the signal is triggered no engine issues a further request, and
\* when the LLM call a run awaits fails with the cancellation condition
\* (AbortError), the step in which the engine resumes from that call ends
\* the run with AbortError: the run neither goes on nor returns a result.
C1_CancellationEndsRunWithAbortError ==
    [][ \A s \in Slots :
          /\ aborted => call'[s].reqs <= call[s].reqs
          /\ ( /\ outcome = "none"
               /\ call[s].pc = "thrown" /\ call[s].error = "AbortError"
               /\ call[s].reqs > 0
               /\ call'[s] # call[s] )
                => outcome' = "AbortError"
      ]_vars

\* C12: runCoT invokes all nSamples sampling calls before any of them is
\* consumed; onProgress fires exactly once per completed sample, with that
\* sample's own index and text, at the moment the sample completes (so in
\* completion order); and the classification starts only after all
\* nSamples samples have completed.
C12_FanOutThenFanIn ==
    [][ /\ Len(events') > 0 =>
              /\ Len(callLog') >= nSamples
              /\ \A s \in Slots : callLog'[s] = "sample"
        /\ \A i, j \in 1..Len(events') :
              i # j => events'[i].index # events'[j].index
        /\ \A s \in Slots :
              ( /\ pc \in {"awaitSamples", "done"}
                /\ call[s].pc = "returned" /\ call'[s] # call[s] )
                  => /\ Len(events') = Len(events) + 1
                     /\ SubSeq(events', 1, Len(events)) = events
                     /\ events'[Len(events')].index = s - 1
                     /\ pc = "awaitSamples"
                            => events'[Len(events')].path = paths'[s]
        /\ events' # events
              => \E s \in Slots : call[s].pc = "returned" /\ call'[s] # call[s]
        /\ ( \/ pc' \in {"awaitImport", "awaitClassify", "awaitSynth",
                          "awaitCanon"}
             \/ questionType' # "none" \/ outcome' = "result" )
              => /\ Len(events') = nSamples
                 /\ \A s \in Slots : paths'[s] # NULL
      ]_vars

\* A run that returned after the second sample completed before the first.
C12_Witness ==
    /\ outcome = "result"
    /\ Len(events) = nSamples
    /\ events[1].index = 1
    /\ events[1].path # events[2].path

\* The callLLM invocations made for the classification.
ClassifierCalls ==
    Cardinality({i \in 1..Len(callLog) : callLog[i] = "classifier"})

\* C17: classifyQuestionSmart never raises and follows the tiers in order.
\* A question the heuristic decides ("What is ..." factual, "plan ..."
\* open-ended) gets that type with no LLM call.  An ambiguous question
\* gets 'factual' with no LLM call when there is no credential; with a
\* credential exactly one callLLM invocation is made, and the type is the
\* one read from its reply, or 'factual' when that invocation failed.
C17_ClassifierTiersNeverRaise ==
    /\ ClassifierCalls <= 1
    /\ pc \in {"awaitImport", "awaitClassify"} => outcome = "none"
    /\ (outcome \in {"AbortError", "Error"} /\ callLog # <<>>)
          => callLog[Len(callLog)] # "classifier"
    /\ ClassifierCalls = 1 => (apiKey /\ question[1] = "capital")
    /\ questionType # "none" =>
          /\ question[1] = "What"
                => questionType = "factual" /\ ClassifierCalls = 0
          /\ question[1] = "plan"
                => questionType = "open-ended" /\ ClassifierCalls = 0
          /\ question[1] = "capital" =>
                /\ questionType \in {"factual", "open-ended"}
                /\ ~apiKey => (questionType = "factual" /\ ClassifierCalls = 0)
                /\ apiKey => ClassifierCalls = 1
                /\ ~classUsage => questionType = "factual"
          /\ classUsage => ClassifierCalls = 1

\* The LLM tier classified an ambiguous question as open-ended.
C17_Witness ==
    /\ question[1] = "capital"
    /\ questionType = "open-ended"
    /\ classUsage
    /\ ClassifierCalls = 1

\* A returned result of the factual branch of runCoT.
FactualResult ==
    /\ outcome = "result"
    /\ result.framework = "CoT"
    /\ result.questionType = "factual"

\* No sampled path of the result yields an extractable answer.
NoPathExtracts ==
    \A i \in 1..Len(result.paths) : extractAnswer(result.paths[i]) = NULL

\* C20: the factual result of runCoT has the placeholder as its finalAnswer
\* and confidence 0 exactly when no sampled path yields an extractable
\* answer; otherwise its finalAnswer is the winner of the vote (the label of
\* voteCounts with the highest count) and its confidence is the winner's
\* count over nSamples, above 0 and at most 1.
C20_PlaceholderExactlyWhenNothingExtracted ==
    FactualResult =>
        /\ Len(result.paths) = nSamples
        /\ result.answer = result.finalAnswer
        /\ result.confidence.of = nSamples
        /\ result.finalAnswer = ExtractionFailed <=> NoPathExtracts
        /\ result.confidence.votes = 0 <=> NoPathExtracts
        /\ ~NoPathExtracts =>
              /\ ObjHas(result.voteCounts, result.finalAnswer)
              /\ result.confidence.votes =
                    ObjGet(result.voteCounts, result.finalAnswer, 0)
              /\ \A i \in 1..Len(result.voteCounts) :
                    result.voteCounts[i].v <= result.confidence.votes
              /\ result.confidence.votes > 0
              /\ result.confidence.votes <= result.confidence.of

\* Both cases happen: a factual result whose winner has some but not all of
\* the votes, one path having given no answer.
C20_Witness ==
    /\ FactualResult
    /\ ~NoPathExtracts
    /\ result.extractionFailures > 0
    /\ result.confidence.votes > 0
    /\ result.confidence.votes < nSamples
    /\ result.finalAnswer # ExtractionFailed

\* The trimmed lower-cased form of an answer, the `original` of the vote.
OriginalOf(a) == LowerText(Trim(a))

\* The key the vote groups an answer under.
KeyOf(a) ==
    IF basicNormalize(a) # <<>> THEN basicNormalize(a) ELSE OriginalOf(a)

\* The number of answers of the result whose original form is o.
OriginalCount(o) ==
    Cardinality({i \in 1..Len(result.answers) :
                    /\ result.answers[i] # NULL
                    /\ OriginalOf(result.answers[i]) = o})

\* The canonicalization calls the run made.
CanonCalls ==
    Cardinality({i \in 1..Len(callLog) : callLog[i] = "canonicalize"})

\* A factual result every path of which gave an answer.
AllExtracted ==
    /\ FactualResult
    /\ \A i \in 1..Len(result.answers) : result.answers[i] # NULL

\* finalAnswer is the most frequent original form, the first on a tie.
FinalIsMostFrequentOriginal ==
    \E i \in 1..Len(result.answers) :
        /\ result.finalAnswer = OriginalOf(result.answers[i])
        /\ \A j \in 1..Len(result.answers) :
              /\ OriginalCount(OriginalOf(result.answers[j]))
                    <= OriginalCount(result.finalAnswer)
              /\ ( /\ j < i
                   /\ OriginalOf(result.answers[j]) # result.finalAnswer )
                    => OriginalCount(OriginalOf(result.answers[j]))
                         < OriginalCount(result.finalAnswer)

RECURSIVE SumCounts(_, _)
SumCounts(d, n) == IF n = 0 THEN 0 ELSE d[n].v + SumCounts(d, n - 1)

\* C22: smartMajorityVote returns: it does not throw.  Its winner is a label
\* of the distribution whose count is maximal, the first such label of the
\* distribution; the returned count is that count; the counts of the
\* distribution sum to the number of non-null candidates; and with no
\* non-null candidate the distribution is empty and the count is 0.
C22_VoteReturnsMaximalGroup ==
    /\ outcome # "TypeError"
    /\ FactualResult =>
          LET d == result.voteCounts
          IN /\ SumCounts(d, Len(d)) = ValidCount(result.answers)
             /\ ValidCount(result.answers) = 0 =>
                   d = <<>> /\ result.confidence.votes = 0
             /\ ValidCount(result.answers) > 0 =>
                   \E i \in 1..Len(d) :
                       /\ d[i].k = result.finalAnswer
                       /\ d[i].v = result.confidence.votes
                       /\ \A j \in 1..Len(d) : d[j].v <= d[i].v
                       /\ \A j \in 1..(i - 1) : d[j].v < d[i].v

\* C30: smartMajorityVote makes a canonicalization call only when more than
\* one substring-merged group remains and there is a credential, and at
\* most one; when that call fails, for any reason, the vote does not raise:
\* the run returns the winner, count and distribution of the
\* substring-merged groups.
C30_CanonicalizationFailureFallsBack ==
    [][ /\ CanonCalls <= 1
        /\ CanonCalls = 1 => apiKey /\ Len(MergedGroups(answers)) > 1
        /\ (FactualResult /\ apiKey /\ Len(MergedGroups(result.answers)) > 1)
              => CanonCalls = 1
        /\ (pc = "awaitCanon" /\ call[1].pc = "thrown" /\ pc' # pc) =>
              LET vote == buildVoteResult(MergedGroups(answers), FALSE)
              IN /\ outcome' = "result"
                 /\ result'.questionType = "factual"
                 /\ result'.finalAnswer = vote.answer
                 /\ result'.confidence.votes = vote.count
                 /\ result'.voteCounts = vote.distribution
                 /\ callLog' = callLog
      ]_vars

\* The canonicalization call failed and the run returned the vote of the
\* merged groups, which were more than one.
C30_Witness ==
    /\ FactualResult
    /\ CanonCalls = 1
    /\ result.llmCalls = nSamples + (IF classUsage THEN 1 ELSE 0)
    /\ Len(result.voteCounts) > 1
    /\ result.voteCounts =
          buildVoteResult(MergedGroups(result.answers), FALSE).distribution

\* The number of answers of the result that are the text a.
AnswerCount(a) ==
    Cardinality({i \in 1..Len(result.answers) : result.answers[i] = a})

\* A factual result, made without a credential, whose answers are "9" and
\* "89", each at least once, and nothing else.
NineAndEightyNine ==
    /\ FactualResult
    /\ ~apiKey
    /\ AnswerCount(<<"9">>) > 0
    /\ AnswerCount(<<"89">>) > 0
    /\ AnswerCount(<<"9">>) + AnswerCount(<<"89">>) = Len(result.answers)

\* C31: the substring merge of smartMajorityVote is guarded: an answer of
\* fewer than 2 characters is similar to no other answer, and a longer one
\* only where it stands between word boundaries.  The candidates "9" and
\* "89", with no credential, stay two groups, each with its own count, and
\* with one candidate each the winner is "9" with count 1.
C31_NineAndEightyNineStayApart ==
    /\ ~areSimilar(<<"9">>, <<"89">>)
    /\ ~areSimilar(<<"89">>, <<"9">>)
    /\ NineAndEightyNine =>
          /\ CanonCalls = 0
          /\ result.voteCounts =
                << [k |-> <<"9">>, v |-> AnswerCount(<<"9">>)],
                   [k |-> <<"89">>, v |-> AnswerCount(<<"89">>)] >>
          /\ result.confidence.votes < Len(result.answers)
          /\ AnswerCount(<<"9">>) = AnswerCount(<<"89">>) =>
                /\ result.finalAnswer = <<"9">>
                /\ result.confidence.votes = AnswerCount(<<"9">>)

\* C31 as stated: the candidates "9" and "89" are merged into one group
\* that has all the votes.
C31_NineAndEightyNineMerged ==
    NineAndEightyNine =>
        /\ Len(result.voteCounts) = 1
        /\ result.confidence.votes = Len(result.answers)

\* The vote on the candidates "89", "9" was made.
C31_Witness ==
    /\ NineAndEightyNine
    /\ result.answers[1] = <<"89">>
    /\ result.finalAnswer = <<"9">>
    /\ Len(result.voteCounts) = 2

\* C33: once runCoT's promise has settled (the run has returned a result or
\* thrown), no further per-sample progress event is delivered.
C33_NoProgressAfterSettled ==
    [][pc = "done" => events' = events]_vars

\* C5: the llmCalls of a returned result is the number of callLLM
\* invocations the run made.
C5_LlmCallsCountsInvocations ==
    outcome = "result" => result.llmCalls = nCalls

====
